---- MODULE Spec2Model ----
(***************************************************************************)
(* A model of the ingestion-and-retrieval pipeline of awsgpu.              *)
(*                                                                         *)
(* Part 1: the advanced Markdown chunker                                   *)
(*         (src/pipeline-advanced/create_chunks.py).                       *)
(* Part 2: the vector-store tools: upload, purge, inventory                *)
(*         (update_weaviate.py, weaviate_purge.py, weaviate_infos.py).     *)
(* Part 3: the cross-encoder reranker (rerank.py).                         *)
(* Part 4: the embedding stage and its cache (create_embeddings.py).       *)
(***************************************************************************)
EXTENDS Integers, Sequences, FiniteSets, TLC

(***************************************************************************)
(* Bounds of the model.                                                    *)
(***************************************************************************)
\* Longest Markdown source, in lines.
MaxLines == 4
\* Largest token budget (chunk_size_tokens); budgets are 1..MaxBudget.
MaxBudget == 2
\* Most objects the vector store holds (and the largest uuid).
MaxObjects == 3
\* Longest embeddings file of one upload run, in lines.
MaxInput == 2
\* Most objects handed to the reranker.
MaxItems == 3
\* Longest chunks file handed to the embedding stage, in lines.
MaxChunks == 3
\* Most candidate occurrences spaCy finds in one text.
MaxOcc == 3
\* Largest min_kw and max_kw.
MaxKw == 2
\* Longest chunks file handed to the title-prefix stage, in lines.
MaxRecords == 3
\* Most blocks of a DOCX document.
MaxBlocks == 4

VARIABLES
    \* ---- chunker: build_chunks_from_markdown ----
    lines,          \* md_text.splitlines()
    budget,         \* chunk_size_tokens
    i,              \* scan position (1-based; the code's i + 1)
    headings,       \* active heading context: level -> title
    buffer_blocks,  \* blocks buffered since the last heading
    chunks,         \* chunks emitted so far
    pc,             \* "scan" while the line loop runs, "done" after the return
    \* history of the chunker (not program state): for every emitted chunk, the
    \* out_blocks it was built from and the number of the flush that emitted it
    packed,
    flushes,
    \* ---- vector store and its tools ----
    collection,     \* the objects of the collection "rag_chunks"
    client,         \* what the client library's responses and objects expose
    op,             \* the tool that runs and its position, "idle" between runs
    input,          \* upload: the lines of the embeddings file
    pos,            \* upload: the line being read / purge: the uuid to delete next
    inserted,       \* upload: inserted
    file_name,      \* purge: file_name
    resp,           \* purge: resp, the last page fetched
    to_delete,      \* purge: to_delete
    deleted,        \* purge: deleted
    total,          \* inventory: total
    per_file,       \* inventory: per_file
    cursor,         \* inventory: cursor (0 is None)
    result,         \* what the last finished run returned
    \* history of the store (not program state): a delete_by_id of the last
    \* purge run raised
    delete_raised,
    \* history of the upload run that ran last, forgotten when another tool
    \* starts (not program state): its recreate, whether the collection held
    \* objects that the run deleted, the objects the collection held before a
    \* run without recreate, the uuids the run inserted, whether an insert
    \* raised and the number of insertable lines the run never came to
    run,
    \* ---- reranker: rerank ----
    items,          \* the objects to rerank, in the order of the input file
    scores,         \* what model.predict returned for the pairs
    items_sorted,   \* what rerank returned
    rpc,            \* "ready" before the call of rerank, "done" after its return
    \* ---- embedding stage: convert_chunks_to_embeddings ----
    chunk_lines,    \* the lines of the input chunks file
    cache_file,     \* the lines of <input>.<model>.emb_cache.jsonl
    out_file,       \* the records of <input>.embeddings.ndjson
    emb_cache,      \* emb_cache: key -> vector
    include_heading_embeddings,
    rows,           \* rows (texts is the "text" of each row)
    rd,             \* the line of the input read next
    epc,            \* position of the run: "idle", "read", "flush", "persist_texts",
                    \* "headings", "persist_headings", "write", "done", "error"
    text_embs,      \* flush_batch: text_embs
    per_row_embeddings, \* flush_batch: per_row_embeddings
    new_cache_items,    \* _persist_cache_items: the items not yet written
    peer,           \* another embedding process on the same input: "off" when
                    \* there is none, else outside ("out"), inside ("in") or
                    \* past ("closed") its call of _persist_cache_items, or a
                    \* whole run of it: before ("start") or past ("run") its
                    \* unlink of the output
    peer_written,   \* the chunks of the input whose records the other run
                    \* has appended to the output
    \* history of the embedding run (not program state):
    err,            \* what ended the run: "none", "cache_load", "input", "backend"
    encode_log,     \* the text lists submitted to model.encode, call by call
    hit_submitted,  \* a text whose key was in emb_cache was submitted
    returned,       \* the cache items of the vectors model.encode returned
    batch_log,      \* the number of rows of every batch written
    prev_run,       \* the end of the run before this one: whether it returned,
                    \* its include_heading_embeddings, the files it left
    \* collect_keywords.py, extract_keywords_spacy:
    kw_doc,         \* what spaCy finds in the text: the entities, noun chunks,
                    \* quoted names and n-grams, with their normalized tokens
    min_kw,         \* the parameter min_kw
    max_kw,         \* the parameter max_kw
    selected,       \* the list returned
    kpc,            \* "call" before the call, "done" after it
    \* process_chunks_add_title.py, process_file:
    fin,            \* the lines of the input file
    fout,           \* the lines written to the output file so far
    \* awsgpu/parse_word.py, build_chunks:
    docx_blocks,        \* the argument blocks: the blocks of the document
    chunk_size_tokens,  \* the budget
    block_idx,          \* the block the loop is at
    current_headings,   \* the heading stack
    accumulator_lines,  \* the texts of the chunk being built
    accumulator_tokens, \* their tokens
    next_chunk_id,      \* the local chunk_id: the id of the next chunk
    docx_chunks,        \* the local chunks: the list returned
    wpc                 \* "loop" in the loop over the blocks, "done" after it

\* no upload run to remember
NoRun == [recreate |-> FALSE, emptied |-> FALSE, before |-> {}, mine |-> {},
          failed |-> FALSE, pending |-> 0]

chunkerVars == <<lines, budget, i, headings, buffer_blocks, chunks, pc, packed, flushes>>

storeVars == <<collection, client, op, input, pos, inserted, file_name, resp, to_delete,
               deleted, total, per_file, cursor, result, delete_raised, run>>

rerankVars == <<items, scores, items_sorted, rpc>>

embedVars == <<chunk_lines, cache_file, out_file, emb_cache, include_heading_embeddings,
               rows, rd, epc, text_embs, per_row_embeddings, new_cache_items, peer,
               peer_written, err, encode_log, hit_submitted, returned, batch_log, prev_run>>

keywordVars == <<kw_doc, min_kw, max_kw, selected, kpc>>

titleVars == <<fin, fout>>

wordVars == <<docx_blocks, chunk_size_tokens, block_idx, current_headings,
              accumulator_lines, accumulator_tokens, next_chunk_id, docx_chunks, wpc>>

vars == <<chunkerVars, storeVars, rerankVars, embedVars, keywordVars, titleVars, wordVars>>

(***************************************************************************)
(* Helpers on sequences and sets.                                          *)
(***************************************************************************)
Max(S) == CHOOSE x \in S : \A y \in S : y <= x

RECURSIVE Flatten(_)
\* "\n".join(seq of multi-line texts): the lines of all blocks, in order.
Flatten(ss) == IF ss = <<>> THEN <<>> ELSE Head(ss) \o Flatten(Tail(ss))

RECURSIVE SumSeq(_)
SumSeq(s) == IF s = <<>> THEN 0 ELSE Head(s) + SumSeq(Tail(s))

(***************************************************************************)
(* Source lines.  A line is described by what the chunker's regular        *)
(* expressions and string tests see of it:                                 *)
(*   txt    the line itself                                                *)
(*   hashes length of the '#' run when _heading_re matches, else 0         *)
(*   title  the heading title when _heading_re matches                     *)
(*   item   _is_list_item_start                                            *)
(*   indent _is_indented_continuation                                      *)
(*   pipe   "|" in line                                                    *)
(*   sep    the table separator regex matches                              *)
(*   cells  word count of every cell of split_row(line)                    *)
(*   w      len(line.split())                                              *)
(***************************************************************************)
\* "# A"
LnH1 ==
    [txt |-> "# A", hashes |-> 1, title |-> "A", item |-> FALSE, indent |-> FALSE,
     pipe |-> FALSE, sep |-> FALSE, cells |-> <<2>>, w |-> 2]

\* "## B | x": a heading whose title holds a pipe
LnH2 ==
    [txt |-> "## B | x", hashes |-> 2, title |-> "B | x", item |-> FALSE, indent |-> FALSE,
     pipe |-> TRUE, sep |-> FALSE, cells |-> <<2, 1>>, w |-> 4]

\* "para"
LnText ==
    [txt |-> "para", hashes |-> 0, title |-> "", item |-> FALSE, indent |-> FALSE,
     pipe |-> FALSE, sep |-> FALSE, cells |-> <<1>>, w |-> 1]

\* "a | b": a table header or row
LnRow ==
    [txt |-> "a | b", hashes |-> 0, title |-> "", item |-> FALSE, indent |-> FALSE,
     pipe |-> TRUE, sep |-> FALSE, cells |-> <<1, 1>>, w |-> 3]

\* "---|---": a table separator
LnSep ==
    [txt |-> "---|---", hashes |-> 0, title |-> "", item |-> FALSE, indent |-> FALSE,
     pipe |-> TRUE, sep |-> TRUE, cells |-> <<1, 1>>, w |-> 1]

\* "- item"
LnItem ==
    [txt |-> "- item", hashes |-> 0, title |-> "", item |-> TRUE, indent |-> FALSE,
     pipe |-> FALSE, sep |-> FALSE, cells |-> <<2>>, w |-> 2]

\* "- x | y": a list item that holds a pipe
LnItemPipe ==
    [txt |-> "- x | y", hashes |-> 0, title |-> "", item |-> TRUE, indent |-> FALSE,
     pipe |-> TRUE, sep |-> FALSE, cells |-> <<2, 1>>, w |-> 4]

\* "  more": an indented continuation line
LnCont ==
    [txt |-> "  more", hashes |-> 0, title |-> "", item |-> FALSE, indent |-> TRUE,
     pipe |-> FALSE, sep |-> FALSE, cells |-> <<1>>, w |-> 1]

\* "": a blank line
LnBlank ==
    [txt |-> "", hashes |-> 0, title |-> "", item |-> FALSE, indent |-> FALSE,
     pipe |-> FALSE, sep |-> FALSE, cells |-> <<0>>, w |-> 0]

LineAlphabet == {LnH1, LnH2, LnText, LnRow, LnSep, LnItem, LnItemPipe, LnCont, LnBlank}

Sources == UNION {[1..n -> LineAlphabet] : n \in 0..MaxLines}

Budgets == 1..MaxBudget

\* Path(source).stem of the one source file of a run.
SourceStem == "doc"

\* Path(source).name
SourceName == "doc.md"

(***************************************************************************)
(* Line tests.                                                             *)
(***************************************************************************)
\* _heading_re.match(line)
IsHeading(ln) == ln.hashes >= 1

_is_list_item_start(ln) == ln.item

_is_indented_continuation(ln) == ln.indent

\* not ln.strip()
IsBlank(ln) == ln.w = 0

\* str.lstrip of a line: the text without its leading white space
LStrip(t) == IF t = "  more" THEN "more" ELSE t

(***************************************************************************)
(* Text.  A text (a block, a chunk's text) is the sequence of its lines;   *)
(* a text line records the source line it was taken from (src; 0 for an    *)
(* empty line the chunker made up; the header line for the "TABLE:" line   *)
(* of a rendered table), its characters and its word count.                *)
(***************************************************************************)
TextLine(src, txt, w) == [src |-> src, txt |-> txt, w |-> w]

\* the source line at index k as a text line
RawLine(k) == TextLine(k, lines[k].txt, lines[k].w)

\* the empty string "" as a text
EmptyLine == TextLine(0, "", 0)

\* len(text.split()): the words of all the lines of the text
estimate_tokens(text) == SumSeq([k \in 1..Len(text) |-> text[k].w])

RECURSIVE DropLeadingBlank(_)
DropLeadingBlank(text) ==
    IF text = <<>> THEN <<>>
    ELSE IF Head(text).w = 0 THEN DropLeadingBlank(Tail(text))
    ELSE text

RECURSIVE DropTrailingBlank(_)
DropTrailingBlank(text) ==
    IF text = <<>> THEN <<>>
    ELSE IF text[Len(text)].w = 0 THEN DropTrailingBlank(SubSeq(text, 1, Len(text) - 1))
    ELSE text

\* mutant of Strip: the text is kept as it is
StripNothing(text) == text

\* str.strip(): white space is removed at both ends, so blank lines at both
\* ends go and the first line loses its indentation; the empty text is "".
Strip(text) ==
    LET t == DropTrailingBlank(DropLeadingBlank(text))
    IN IF t = <<>> THEN <<>>
       ELSE <<[t[1] EXCEPT !.txt = LStrip(t[1].txt)]>> \o Tail(t)

(***************************************************************************)
(* parse_table_block                                                       *)
(***************************************************************************)
RECURSIVE TableEnd(_)
\* first index at or after k whose line holds no "|"
TableEnd(k) ==
    IF k <= Len(lines) /\ lines[k].pipe THEN TableEnd(k + 1) ELSE k

\* mutant of IsTableStart: any line that holds "|" starts a table
IsTableStartAnyPipe(start) ==
    /\ start <= Len(lines)
    /\ lines[start].pipe

\* a table starts at start: a header with "|" and a separator line after it
IsTableStart(start) ==
    /\ start <= Len(lines)
    /\ lines[start].pipe
    /\ start + 1 <= Len(lines)
    /\ lines[start + 1].sep

\* words of the rendering "key: value; key: value" of one row: an empty
\* value is left out; the key is the header cell (alone it renders as ":")
\* or "col<n>" past the last header
RenderedRowWords(hdr, row) ==
    SumSeq([c \in 1..Len(row) |->
        IF row[c] = 0 THEN 0
        ELSE (IF c <= Len(hdr) /\ hdr[c] > 0 THEN hdr[c] ELSE 1) + row[c]])

\* words of " | ".join(headers)
HeaderOnlyWords(hdr) == SumSeq(hdr) + (Len(hdr) - 1)

\* parse_table_block(lines, start) for a start with IsTableStart: the text
\* "TABLE:\n" + rendered rows, and the index of the line after the table
parse_table_block(start) ==
    LET next == TableEnd(start + 2)
        hdr == lines[start].cells
        rowIdx == [k \in 1..(next - start - 2) |-> start + 1 + k]
        rendered == [k \in 1..Len(rowIdx) |->
                        TextLine(rowIdx[k], "<row>",
                                 RenderedRowWords(hdr, lines[rowIdx[k]].cells))]
        kept == SelectSeq(rendered, LAMBDA r : r.w > 0)
        body == IF kept = <<>>
                THEN <<TextLine(start, "<headers>", HeaderOnlyWords(hdr))>>
                ELSE kept
    IN [text |-> <<TextLine(start, "TABLE:", 1)>> \o body, next |-> next]

(***************************************************************************)
(* _parse_list_block                                                       *)
(***************************************************************************)
RECURSIVE ListEnd(_)
\* index of the first line after the list block that holds line k
ListEnd(k) ==
    IF k > Len(lines) THEN k
    ELSE IF _is_list_item_start(lines[k]) \/ _is_indented_continuation(lines[k])
         THEN ListEnd(k + 1)
    ELSE IF /\ IsBlank(lines[k])
            /\ k + 1 <= Len(lines)
            /\ (_is_list_item_start(lines[k + 1]) \/ _is_indented_continuation(lines[k + 1]))
         THEN ListEnd(k + 1)
    ELSE k

\* _parse_list_block(lines, start) for a start that is a list item
_parse_list_block(start) ==
    LET next == ListEnd(start)
    IN [text |-> [k \in 1..(next - start) |-> RawLine(start + k - 1)], next |-> next]

(***************************************************************************)
(* _collect_previous_paragraph                                             *)
(***************************************************************************)
\* index of the last non-blank line before list_start, 0 when there is none
PrevNonBlank(list_start) ==
    LET S == {j \in 1..(list_start - 1) : ~IsBlank(lines[j])}
    IN IF S = {} THEN 0 ELSE Max(S)

\* index of the first line of the run of non-blank lines that ends at j
ParaStart(j) ==
    LET S == {k \in 1..(j - 1) : IsBlank(lines[k])}
    IN IF S = {} THEN 1 ELSE Max(S) + 1

\* (para_lines, gap_blank_count); found is FALSE for the code's (None, 0)
_collect_previous_paragraph(list_start) ==
    LET j == PrevNonBlank(list_start)
    IN IF j = 0 \/ IsHeading(lines[j]) \/ _is_list_item_start(lines[j])
       THEN [found |-> FALSE, para |-> <<>>, gap |-> 0]
       ELSE [found |-> TRUE,
             para |-> [k \in 1..(j - ParaStart(j) + 1) |-> lines[ParaStart(j) + k - 1].txt],
             gap |-> list_start - 1 - j]

(***************************************************************************)
(* emit_buffer_as_chunks and finalize_one                                  *)
(***************************************************************************)
\* current_headings_meta: a fresh copy of the active levels and titles
current_headings_meta(hd) == [lvl \in DOMAIN hd |-> hd[lvl]]

\* the chunk appended by finalize_one(out_text) when n chunks exist
\* (keywords, a function of the text alone, are left out)
finalize_one(out_text, hd, n) ==
    [chunk_id |-> [file |-> SourceName, h |-> DOMAIN hd, n |-> n + 1],
     text |-> out_text,
     headings |-> current_headings_meta(hd),
     approx_tokens |-> estimate_tokens(out_text)]

\* mutant of MustFlush: the chunk is closed as soon as the budget is reached
MustFlushAtBudget(out_blocks, approx, block_tokens, size) ==
    out_blocks # <<>> /\ (approx + block_tokens) >= size

\* the test of line 263: flush before adding a block of block_tokens
MustFlush(out_blocks, approx, block_tokens, size) ==
    out_blocks # <<>> /\ (approx + block_tokens) > size

RECURSIVE PackBlocks(_, _, _, _)
\* the loop of lines 260-273 over the blocks left: the sequence of out_blocks
\* lists that are finalized, in order
PackBlocks(blocks, out_blocks, approx, size) ==
    IF blocks = <<>>
    THEN IF out_blocks # <<>> THEN <<out_blocks>> ELSE <<>>
    ELSE LET block == Head(blocks)
             block_tokens == estimate_tokens(block)
         IN IF MustFlush(out_blocks, approx, block_tokens, size)
            THEN <<out_blocks>> \o PackBlocks(Tail(blocks), <<block>>, block_tokens, size)
            ELSE PackBlocks(Tail(blocks), Append(out_blocks, block),
                            approx + block_tokens, size)

\* "\n".join(out_blocks).strip()
OutText(out_blocks) == Strip(Flatten(out_blocks))

\* the chunks list after emit_buffer_as_chunks()
EmitChunks(chs, buf, hd, size) ==
    LET groups == PackBlocks(buf, <<>>, 0, size)
    IN chs \o [g \in 1..Len(groups) |->
                 finalize_one(OutText(groups[g]), hd, Len(chs) + g - 1)]

\* history: the out_blocks of the chunks of this flush
EmitPacked(pk, buf, size, fl) ==
    LET groups == PackBlocks(buf, <<>>, 0, size)
    IN pk \o [g \in 1..Len(groups) |-> [blocks |-> groups[g], flush |-> fl]]

(***************************************************************************)
(* build_chunks_from_markdown: the line loop, one action per branch        *)
(***************************************************************************)
\* no run before this one
NoPrev == [ok |-> FALSE, include |-> FALSE, out |-> <<>>, cache |-> <<>>]

\* the locals of the embedding stage between two runs
EmbedLocalsAtRest ==
    /\ emb_cache = <<>>
    /\ include_heading_embeddings = FALSE
    /\ rows = <<>>
    /\ rd = 0
    /\ text_embs = <<>>
    /\ per_row_embeddings = <<>>
    /\ new_cache_items = <<>>
    /\ err = "none"
    /\ encode_log = <<>>
    /\ hit_submitted = FALSE
    /\ returned = {}
    /\ batch_log = <<>>
    /\ prev_run = NoPrev
    /\ peer_written = 0

\* the embedding stage while another part is looked at
EmbedAtRest ==
    /\ chunk_lines = <<>>
    /\ cache_file = <<>>
    /\ out_file = <<>>
    /\ epc = "off"
    /\ peer = "off"
    /\ EmbedLocalsAtRest

\* the reranker while another part is looked at
RerankAtRest ==
    /\ items = <<>>
    /\ scores = <<>>
    /\ items_sorted = <<>>
    /\ rpc = "off"

\* the store and its tools while the chunker is looked at
StoreAtRest ==
    /\ collection = {}
    /\ client = [cursor |-> FALSE, uuid_str |-> FALSE]
    /\ op = "idle"
    /\ input = <<>>
    /\ pos = 0
    /\ inserted = 0
    /\ file_name = <<>>
    /\ resp = [objects |-> <<>>, has_next_page |-> FALSE, cursor |-> 0]
    /\ to_delete = <<>>
    /\ deleted = 0
    /\ total = 0
    /\ per_file = <<>>
    /\ cursor = 0
    /\ result = [tool |-> "none", value |-> 0]
    /\ delete_raised = FALSE
    /\ run = NoRun

\* the keyword extractor while another part is looked at
KeywordsAtRest ==
    /\ kw_doc = <<>>
    /\ min_kw = 0
    /\ max_kw = 0
    /\ selected = <<>>
    /\ kpc = "off"

\* the title-prefix stage while another part is looked at
TitleAtRest ==
    /\ fin = <<>>
    /\ fout = <<>>

\* the DOCX chunker while another part is looked at
WordAtRest ==
    /\ docx_blocks = <<>>
    /\ chunk_size_tokens = 1
    /\ block_idx = 1
    /\ current_headings = <<>>
    /\ accumulator_lines = <<>>
    /\ accumulator_tokens = 0
    /\ next_chunk_id = 0
    /\ docx_chunks = <<>>
    /\ wpc = "off"

InitChunker ==
    /\ lines \in Sources
    /\ budget \in Budgets
    /\ i = 1
    /\ headings = <<>>
    /\ buffer_blocks = <<>>
    /\ chunks = <<>>
    /\ pc = "scan"
    /\ packed = <<>>
    /\ flushes = 0
    /\ StoreAtRest
    /\ RerankAtRest
    /\ EmbedAtRest
    /\ KeywordsAtRest
    /\ TitleAtRest
    /\ WordAtRest

\* headings[level] = title, then every deeper level is deleted
SetHeading(hd, level, title) ==
    [lvl \in {l \in (DOMAIN hd) \cup {level} : l <= level} |->
        IF lvl = level THEN title ELSE hd[lvl]]

\* lines 281-296: a heading line
ScanHeading ==
    /\ pc = "scan"
    /\ i <= Len(lines)
    /\ IsHeading(lines[i])
    /\ chunks' = EmitChunks(chunks, buffer_blocks, headings, budget)
    /\ packed' = EmitPacked(packed, buffer_blocks, budget, flushes)
    /\ flushes' = flushes + 1
    /\ buffer_blocks' = <<>>
    /\ headings' = SetHeading(headings, lines[i].hashes, lines[i].title)
    /\ i' = i + 1
    /\ UNCHANGED <<lines, budget, pc>>
    /\ UNCHANGED <<storeVars, rerankVars, embedVars, keywordVars, titleVars, wordVars>>

\* lines 298-303: a table
ScanTable ==
    /\ pc = "scan"
    /\ i <= Len(lines)
    /\ ~IsHeading(lines[i])
    /\ IsTableStart(i)
    /\ LET t == parse_table_block(i)
       IN /\ buffer_blocks' = Append(buffer_blocks, t.text)
          /\ i' = t.next
    /\ UNCHANGED <<lines, budget, headings, chunks, pc, packed, flushes>>
    /\ UNCHANGED <<storeVars, rerankVars, embedVars, keywordVars, titleVars, wordVars>>

RECURSIVE PopBlank(_)
\* lines 315-317: the buffer without its trailing blank blocks
PopBlank(buf) ==
    IF buf # <<>> /\ estimate_tokens(buf[Len(buf)]) = 0
    THEN PopBlank(SubSeq(buf, 1, Len(buf) - 1))
    ELSE buf

\* the characters of a block, line by line
BlockTxt(block) == [k \in 1..Len(block) |-> block[k].txt]

\* line 320: the last len(para_lines) blocks of the buffer are the paragraph's lines
TailIsParagraph(buf, para) ==
    /\ Len(buf) >= Len(para)
    /\ \A k \in 1..Len(para) :
          BlockTxt(buf[Len(buf) - Len(para) + k]) = <<para[k]>>

\* mutant of BufferWithList: the paragraph joined to the list also stays
\* in the buffer
BufferWithListKeepsParagraph(buf, list_text, prev) ==
    LET popped == PopBlank(buf)
        n == Len(prev.para)
    IN IF prev.found /\ TailIsParagraph(popped, prev.para)
       THEN Append(popped,
                   Flatten(SubSeq(popped, Len(popped) - n + 1, Len(popped))) \o list_text)
       ELSE Append(buf, list_text)

\* lines 311-333: the buffer after a list block was met at position i
BufferWithList(buf, list_text, prev) ==
    LET popped == PopBlank(buf)
        popped_blanks == Len(buf) - Len(popped)
        n == Len(prev.para)
    IN IF prev.found
       THEN IF TailIsParagraph(popped, prev.para)
            THEN LET para_text == Flatten(SubSeq(popped, Len(popped) - n + 1, Len(popped)))
                     separator == IF prev.gap > 0 THEN <<EmptyLine>> ELSE <<>>
                 IN Append(SubSeq(popped, 1, Len(popped) - n),
                           para_text \o separator \o list_text)
            ELSE Append(popped \o [k \in 1..popped_blanks |-> <<EmptyLine>>], list_text)
       ELSE Append(buf, list_text)

\* lines 305-334: a list block
ScanList ==
    /\ pc = "scan"
    /\ i <= Len(lines)
    /\ ~IsHeading(lines[i])
    /\ ~IsTableStart(i)
    /\ _is_list_item_start(lines[i])
    /\ LET l == _parse_list_block(i)
       IN /\ buffer_blocks' = BufferWithList(buffer_blocks, l.text,
                                               _collect_previous_paragraph(i))
          /\ i' = l.next
    /\ UNCHANGED <<lines, budget, headings, chunks, pc, packed, flushes>>
    /\ UNCHANGED <<storeVars, rerankVars, embedVars, keywordVars, titleVars, wordVars>>

\* lines 336-338: a regular text line
ScanText ==
    /\ pc = "scan"
    /\ i <= Len(lines)
    /\ ~IsHeading(lines[i])
    /\ ~IsTableStart(i)
    /\ ~_is_list_item_start(lines[i])
    /\ buffer_blocks' = Append(buffer_blocks, <<RawLine(i)>>)
    /\ i' = i + 1
    /\ UNCHANGED <<lines, budget, headings, chunks, pc, packed, flushes>>
    /\ UNCHANGED <<storeVars, rerankVars, embedVars, keywordVars, titleVars, wordVars>>

\* mutant of Renumber: the ids given by finalize_one are kept
RenumberNothing(chs) == chs

\* lines 343-345: ch["chunk_id"] = f"{Path(source).stem}-{idx}"
Renumber(chs) ==
    [idx \in 1..Len(chs) |->
        [chs[idx] EXCEPT !.chunk_id = [file |-> SourceStem, h |-> {}, n |-> idx]]]

\* lines 340-347: the end of the input
Finish ==
    /\ pc = "scan"
    /\ i > Len(lines)
    /\ chunks' = Renumber(EmitChunks(chunks, buffer_blocks, headings, budget))
    /\ packed' = EmitPacked(packed, buffer_blocks, budget, flushes)
    /\ flushes' = flushes + 1
    /\ buffer_blocks' = <<>>
    /\ pc' = "done"
    /\ UNCHANGED <<lines, budget, i, headings>>
    /\ UNCHANGED <<storeVars, rerankVars, embedVars, keywordVars, titleVars, wordVars>>

NextChunker ==
    \/ ScanHeading
    \/ ScanTable
    \/ ScanList
    \/ ScanText
    \/ Finish

SpecChunker == InitChunker /\ [][NextChunker]_vars

(***************************************************************************)
(* Part 2: the vector store and its tools.                                 *)
(*                                                                         *)
(* A chunk_id is the sequence of the pieces between its hyphens:           *)
(* "doc-1" is <<"doc", "1">>, "doc-1-1" (chunk 1 of the source "doc-1") is *)
(* <<"doc", "1", "1">>, "notes" is <<"notes">>.  A file name (source stem) *)
(* is written the same way.                                                *)
(***************************************************************************)
\* fetch_objects(limit=1000, ...): the page size, scaled down for the model
PageLimit == 2

ChunkIds == {<<"doc", "1">>, <<"doc", "2">>, <<"doc", "1", "1">>, <<"notes">>}

FileNames == {<<"doc">>, <<"doc", "1">>}

\* \d+
IsDigits(piece) == piece \in {"1", "2"}

\* the chunker's vars while the store is looked at
ChunkerAtRest ==
    /\ lines = <<>>
    /\ budget = 1
    /\ i = 1
    /\ headings = <<>>
    /\ buffer_blocks = <<>>
    /\ chunks = <<>>
    /\ pc = "off"
    /\ packed = <<>>
    /\ flushes = 0

\* the lines of an embeddings file: a record with its vector, a record with
\* no "embedding", a line that is no JSON
InputLines ==
    {[kind |-> "record", chunk_id |-> c] : c \in ChunkIds}
        \cup {[kind |-> "no_embedding", chunk_id |-> <<"doc", "1">>],
              [kind |-> "malformed", chunk_id |-> <<>>]}

InputFiles == UNION {[1..n -> InputLines] : n \in 0..MaxInput}

RECURSIVE SortByUuid(_)
\* the objects of S in the order of their uuids
SortByUuid(S) ==
    IF S = {} THEN <<>>
    ELSE LET first == CHOOSE o \in S : \A q \in S : o.uuid <= q.uuid
         IN <<first>> \o SortByUuid(S \ {first})

\* coll.query.fetch_objects(limit, after): the next objects in uuid order.
\* Whether the response also tells that a page follows and where it starts
\* is the client library's matter (client.cursor): the tools read these
\* attributes with getattr and a default, 0 standing for None.
fetch_objects(coll, limit, after) ==
    LET rest == SortByUuid({o \in coll : o.uuid > after})
        page == SubSeq(rest, 1, IF Len(rest) < limit THEN Len(rest) ELSE limit)
    IN [objects |-> page,
        has_next_page |-> client.cursor /\ Len(rest) > limit,
        cursor |-> IF client.cursor /\ page # <<>> THEN page[Len(page)].uuid ELSE 0]

InitStore ==
    /\ ChunkerAtRest
    /\ KeywordsAtRest
    /\ RerankAtRest
    /\ EmbedAtRest
    /\ TitleAtRest
    /\ WordAtRest
    /\ collection = {}
    /\ client \in [cursor : BOOLEAN, uuid_str : BOOLEAN]
    /\ op = "idle"
    /\ input = <<>>
    /\ pos = 0
    /\ inserted = 0
    /\ file_name = <<>>
    /\ resp = [objects |-> <<>>, has_next_page |-> FALSE, cursor |-> 0]
    /\ to_delete = <<>>
    /\ deleted = 0
    /\ total = 0
    /\ per_file = <<>>
    /\ cursor = 0
    /\ result = [tool |-> "none", value |-> 0]
    /\ delete_raised = FALSE
    /\ run = NoRun

NoResult == [tool |-> "none", value |-> 0]

NoResp == [objects |-> <<>>, has_next_page |-> FALSE, cursor |-> 0]

(***************************************************************************)
(* update_weaviate.py: upload_embeddings_to_weaviate                       *)
(***************************************************************************)
\* a _ensure_collection that never deletes the collection
_ensure_collection_keeps(coll, recreate) == coll

\* _ensure_collection: with recreate the collection is deleted and created
\* again, without it the collection is used as it is
_ensure_collection(coll, recreate) == IF recreate THEN {} ELSE coll

\* the lines of the file that get inserted (lines 151-163 skip the others)
IsInsertable(line) == line.kind = "record"

\* coll.data.insert(properties=props, vector=vectors): a new object under a
\* uuid the store draws
DataInsert(coll, uuid, props) == coll \cup {[uuid |-> uuid, chunk_id |-> props.chunk_id]}

FreeUuids(coll) == (1..MaxObjects) \ {o.uuid : o \in coll}

\* the insertable lines of in from line k on
Insertable(in, k) == {n \in k..Len(in) : IsInsertable(in[n])}

\* lines 139-147: the run starts
UploadBegin ==
    /\ op = "idle"
    /\ \E in \in InputFiles, recreate \in BOOLEAN :
          /\ Cardinality(_ensure_collection(collection, recreate))
                + Cardinality(Insertable(in, 1)) <= MaxObjects
          /\ collection' = _ensure_collection(collection, recreate)
          /\ input' = in
          /\ run' = [recreate |-> recreate,
                     emptied |-> recreate /\ collection # {},
                     before |-> IF recreate THEN {} ELSE collection,
                     mine |-> {}, failed |-> FALSE, pending |-> 0]
    /\ pos' = 1
    /\ inserted' = 0
    /\ op' = "upload"
    /\ result' = NoResult
    /\ UNCHANGED <<client, file_name, resp, to_delete, deleted, total, per_file, cursor,
                   delete_raised>>
    /\ UNCHANGED <<chunkerVars, rerankVars, embedVars, keywordVars, titleVars, wordVars>>

\* lines 150-197: one line of the file.  coll.data.insert may raise (the
\* store refuses the vector, the connection breaks): nothing catches it in
\* the loop, the finally of line 200 closes the client and main (lines
\* 232-234) prints the error and returns 1.
UploadLine ==
    /\ op = "upload"
    /\ pos <= Len(input)
    /\ \/ /\ IF IsInsertable(input[pos])
             THEN /\ \E uuid \in FreeUuids(collection) :
                        /\ collection' = DataInsert(collection, uuid, input[pos])
                        /\ run' = [run EXCEPT !.mine = @ \cup {uuid}]
                  /\ inserted' = inserted + 1
             ELSE UNCHANGED <<collection, inserted, run>>
          /\ pos' = pos + 1
          /\ UNCHANGED <<op, input, result>>
       \/ /\ IsInsertable(input[pos])
          /\ run' = [run EXCEPT !.failed = TRUE,
                                !.pending = Cardinality(Insertable(input, pos + 1))]
          /\ result' = [tool |-> "upload", value |-> [inserted |-> inserted, exit |-> 1]]
          /\ op' = "idle"
          /\ input' = <<>>
          /\ pos' = 0
          /\ inserted' = 0
          /\ UNCHANGED collection
    /\ UNCHANGED <<client, file_name, resp, to_delete, deleted, total, per_file,
                   cursor, delete_raised>>
    /\ UNCHANGED <<chunkerVars, rerankVars, embedVars, keywordVars, titleVars, wordVars>>

\* lines 199-201: return inserted; main (lines 236-237) prints it and returns 0
UploadReturn ==
    /\ op = "upload"
    /\ pos > Len(input)
    /\ result' = [tool |-> "upload", value |-> [inserted |-> inserted, exit |-> 0]]
    /\ op' = "idle"
    /\ input' = <<>>
    /\ pos' = 0
    /\ inserted' = 0
    /\ UNCHANGED <<collection, client, file_name, resp, to_delete, deleted, total, per_file,
                   cursor, delete_raised, run>>
    /\ UNCHANGED <<chunkerVars, rerankVars, embedVars, keywordVars, titleVars, wordVars>>

(***************************************************************************)
(* weaviate_purge.py: purge_by_filename                                    *)
(***************************************************************************)
\* mutant of PatternMatch: the chunk_id only has to start with "<file_name>-"
PatternMatchPrefix(name, chunk_id) ==
    /\ Len(chunk_id) > Len(name)
    /\ SubSeq(chunk_id, 1, Len(name)) = name

\* pattern.match(chunk_id) for pattern ^<file_name>-(\d+)$
PatternMatch(name, chunk_id) ==
    /\ Len(chunk_id) = Len(name) + 1
    /\ SubSeq(chunk_id, 1, Len(name)) = name
    /\ IsDigits(chunk_id[Len(chunk_id)])

\* collect(page): the uuids of the page's objects that match the pattern;
\* a uuid the client does not give as a str is not kept (line 63)
Collect(page, name) ==
    LET hit == SelectSeq(page.objects,
                         LAMBDA o : PatternMatch(name, o.chunk_id) /\ client.uuid_str)
    IN [k \in 1..Len(hit) |-> hit[k].uuid]

\* lines 42-66: the first page
PurgeBegin ==
    /\ op = "idle"
    /\ \E name \in FileNames :
          /\ file_name' = name
          /\ LET page == fetch_objects(collection, PageLimit, 0)
             IN /\ resp' = page
                /\ to_delete' = Collect(page, name)
    /\ op' = "purge_pages"
    /\ result' = NoResult
    /\ delete_raised' = FALSE
    /\ UNCHANGED <<collection, client, input, pos, inserted, deleted, total, per_file, cursor>>
    /\ run' = NoRun
    /\ UNCHANGED <<chunkerVars, rerankVars, embedVars, keywordVars, titleVars, wordVars>>

\* lines 69-78: one more page, while the response says that one follows
PurgeNextPage ==
    /\ op = "purge_pages"
    /\ resp.has_next_page
    /\ resp.cursor # 0
    /\ LET page == fetch_objects(collection, PageLimit, resp.cursor)
       IN /\ resp' = page
          /\ to_delete' = to_delete \o Collect(page, file_name)
    /\ UNCHANGED <<collection, client, op, input, pos, inserted, file_name, deleted, total,
                   per_file, cursor, result, delete_raised>>
    /\ UNCHANGED run
    /\ UNCHANGED <<chunkerVars, rerankVars, embedVars, keywordVars, titleVars, wordVars>>

\* lines 69-72, 81: the page loop ends
PurgePagesEnd ==
    /\ op = "purge_pages"
    /\ ~(resp.has_next_page /\ resp.cursor # 0)
    /\ op' = "purge_delete"
    /\ pos' = 1
    /\ deleted' = 0
    /\ UNCHANGED <<collection, client, input, inserted, file_name, resp, to_delete, total,
                   per_file, cursor, result, delete_raised>>
    /\ UNCHANGED run
    /\ UNCHANGED <<chunkerVars, rerankVars, embedVars, keywordVars, titleVars, wordVars>>

\* lines 82-88: coll.data.delete_by_id(uid); when it raises the object stays
\* and the loop goes on
PurgeDelete ==
    /\ op = "purge_delete"
    /\ pos <= Len(to_delete)
    /\ \/ /\ collection' = {o \in collection : o.uuid # to_delete[pos]}
          /\ deleted' = deleted + 1
          /\ UNCHANGED delete_raised
       \/ /\ delete_raised' = TRUE
          /\ UNCHANGED <<collection, deleted>>
    /\ pos' = pos + 1
    /\ UNCHANGED <<client, op, input, inserted, file_name, resp, to_delete, total, per_file,
                   cursor, result>>
    /\ UNCHANGED run
    /\ UNCHANGED <<chunkerVars, rerankVars, embedVars, keywordVars, titleVars, wordVars>>

\* lines 90-92: return deleted
PurgeReturn ==
    /\ op = "purge_delete"
    /\ pos > Len(to_delete)
    /\ result' = [tool |-> "purge", value |-> deleted]
    /\ op' = "idle"
    /\ pos' = 0
    /\ deleted' = 0
    /\ to_delete' = <<>>
    /\ resp' = NoResp
    /\ UNCHANGED <<collection, client, input, inserted, file_name, total, per_file, cursor,
                   delete_raised>>
    /\ UNCHANGED run
    /\ UNCHANGED <<chunkerVars, rerankVars, embedVars, keywordVars, titleVars, wordVars>>

(***************************************************************************)
(* weaviate_infos.py: collect_counts                                       *)
(***************************************************************************)
\* _file_from_chunk_id: the file of ^(?P<file>.+)-(?P<index>\d+)$, <<>> for None
_file_from_chunk_id(chunk_id) ==
    IF Len(chunk_id) >= 2 /\ IsDigits(chunk_id[Len(chunk_id)])
    THEN SubSeq(chunk_id, 1, Len(chunk_id) - 1)
    ELSE <<>>

\* per_file[fname] += 1 on a defaultdict(int)
Increment(pf, fname) ==
    [f \in (DOMAIN pf) \cup {fname} |->
        IF f = fname THEN (IF f \in DOMAIN pf THEN pf[f] ELSE 0) + 1 ELSE pf[f]]

RECURSIVE CountFiles(_, _)
\* lines 77-83 over the objects of a page
CountFiles(pf, objs) ==
    IF objs = <<>> THEN pf
    ELSE LET fname == _file_from_chunk_id(Head(objs).chunk_id)
         IN CountFiles(IF fname # <<>> THEN Increment(pf, fname) ELSE pf, Tail(objs))

\* lines 60-68: the run starts
CollectBegin ==
    /\ op = "idle"
    /\ op' = "collect"
    /\ total' = 0
    /\ per_file' = <<>>
    /\ cursor' = 0
    /\ result' = NoResult
    /\ UNCHANGED <<collection, client, input, pos, inserted, file_name, resp, to_delete,
                   deleted, delete_raised>>
    /\ run' = NoRun
    /\ UNCHANGED <<chunkerVars, rerankVars, embedVars, keywordVars, titleVars, wordVars>>

\* lines 70-98: one turn of the while loop: a page is fetched and counted,
\* then the loop ends (and the function returns) or goes on after next_cursor
CollectPage ==
    /\ op = "collect"
    /\ LET page == fetch_objects(collection, PageLimit, cursor)
           objs == page.objects
           next_cursor == page.cursor
           new_total == total + Len(objs)
           new_per_file == CountFiles(per_file, objs)
       IN IF next_cursor = 0 \/ Len(objs) < PageLimit
          THEN /\ result' = [tool |-> "collect",
                             value |-> [total |-> new_total, per_file |-> new_per_file]]
               /\ op' = "idle"
               /\ total' = 0
               /\ per_file' = <<>>
               /\ cursor' = 0
          ELSE /\ total' = new_total
               /\ per_file' = new_per_file
               /\ cursor' = next_cursor
               /\ UNCHANGED <<op, result>>
    /\ UNCHANGED <<collection, client, input, pos, inserted, file_name, resp, to_delete,
                   deleted, delete_raised>>
    /\ UNCHANGED run
    /\ UNCHANGED <<chunkerVars, rerankVars, embedVars, keywordVars, titleVars, wordVars>>

NextStore ==
    \/ UploadBegin
    \/ UploadLine
    \/ UploadReturn
    \/ PurgeBegin
    \/ PurgeNextPage
    \/ PurgePagesEnd
    \/ PurgeDelete
    \/ PurgeReturn
    \/ CollectBegin
    \/ CollectPage

SpecStore == InitStore /\ [][NextStore]_vars

\* the collections that uploads can leave: objects under distinct uuids
StoredCollections ==
    UNION {{{[uuid |-> u, chunk_id |-> f[u]] : u \in U} : f \in [U -> ChunkIds]} :
              U \in SUBSET (1..MaxObjects)}

\* the purge tool alone, run after run, started on a collection that uploads left
InitPurge ==
    /\ ChunkerAtRest
    /\ KeywordsAtRest
    /\ RerankAtRest
    /\ EmbedAtRest
    /\ TitleAtRest
    /\ WordAtRest
    /\ collection \in StoredCollections
    /\ client \in [cursor : BOOLEAN, uuid_str : BOOLEAN]
    /\ op = "idle"
    /\ input = <<>>
    /\ pos = 0
    /\ inserted = 0
    /\ file_name = <<>>
    /\ resp = [objects |-> <<>>, has_next_page |-> FALSE, cursor |-> 0]
    /\ to_delete = <<>>
    /\ deleted = 0
    /\ total = 0
    /\ per_file = <<>>
    /\ cursor = 0
    /\ result = [tool |-> "none", value |-> 0]
    /\ delete_raised = FALSE
    /\ run = NoRun

NextPurge ==
    \/ PurgeBegin
    \/ PurgeNextPage
    \/ PurgePagesEnd
    \/ PurgeDelete
    \/ PurgeReturn

SpecPurge == InitPurge /\ [][NextPurge]_vars

\* the upload tool alone, run after run on the collection the earlier runs left
NextUpload ==
    \/ UploadBegin
    \/ UploadLine
    \/ UploadReturn

SpecUpload == InitStore /\ [][NextUpload]_vars

(***************************************************************************)
(* Part 3: the reranker (rerank.py).                                       *)
(*                                                                         *)
(* An object of the input is a record of its chunk_id and its text; an     *)
(* object of the result also has its "reranker" score and, as history, the *)
(* index "from" it had in the input (the identity of the Python object).   *)
(***************************************************************************)
RerankTexts == {"short", "long"}

RerankObjects == [chunk_id : {"doc-1", "doc-2"}, text : RerankTexts]

RerankInputs == UNION {[1..n -> RerankObjects] : n \in 0..MaxItems}

\* the scores of the cross-encoder (floats in the code)
Scores == 0..2

\* model.predict(pairs): one score per pair [question, text], a function of
\* the pair; the question is the same for all pairs of a call
Predict(f, its) == [k \in 1..Len(its) |-> f[its[k].text]]

\* lines 95-96: obj["reranker"] = float(score)
Attach(its, scs) ==
    [k \in 1..Len(its) |->
        [chunk_id |-> its[k].chunk_id, text |-> its[k].text, reranker |-> scs[k],
         from |-> k]]

\* an insertion that puts e before the elements of its own score
InsertBeforeTies(sq, e) ==
    LET p == Cardinality({n \in 1..Len(sq) : sq[n].reranker > e.reranker})
    IN SubSeq(sq, 1, p) \o <<e>> \o SubSeq(sq, p + 1, Len(sq))

\* e put into sq, sorted by non-increasing score, behind the elements of its
\* own score: sorted(..., reverse=True) keeps the order of equal keys
InsertDescending(sq, e) ==
    LET p == Cardinality({n \in 1..Len(sq) : sq[n].reranker >= e.reranker})
    IN SubSeq(sq, 1, p) \o <<e>> \o SubSeq(sq, p + 1, Len(sq))

RECURSIVE sorted_reverse(_)
\* line 99: sorted(items, key=lambda x: x.get("reranker", ...), reverse=True)
sorted_reverse(sq) ==
    IF sq = <<>> THEN <<>>
    ELSE InsertDescending(sorted_reverse(SubSeq(sq, 1, Len(sq) - 1)), sq[Len(sq)])

\* before the call: the objects read from the input file
InitRerank ==
    /\ ChunkerAtRest
    /\ KeywordsAtRest
    /\ StoreAtRest
    /\ EmbedAtRest
    /\ TitleAtRest
    /\ WordAtRest
    /\ items \in RerankInputs
    /\ scores = <<>>
    /\ items_sorted = <<>>
    /\ rpc = "ready"

\* lines 83-100: rerank(question, items)
Rerank ==
    /\ rpc = "ready"
    /\ IF items = <<>>
       THEN /\ scores' = <<>>
            /\ items_sorted' = <<>>
       ELSE \E f \in [RerankTexts -> Scores] :
               /\ scores' = Predict(f, items)
               /\ items_sorted' = sorted_reverse(Attach(items, Predict(f, items)))
    /\ rpc' = "done"
    /\ UNCHANGED items
    /\ UNCHANGED <<chunkerVars, storeVars, embedVars, keywordVars, titleVars, wordVars>>

NextRerank == Rerank

SpecRerank == InitRerank /\ [][NextRerank]_vars

(***************************************************************************)
(* Part 4: the embedding stage (create_embeddings.py).                     *)
(*                                                                         *)
(* A vector is a record of the text it embeds and of the library version   *)
(* that computed it.  A cache key, the SHA-256 of model name, version and  *)
(* text in the code, is the tuple of the three.                            *)
(***************************************************************************)
_MODEL_NAME == "paraphrase-xlm-r-multilingual-v1"

\* _BATCH_SIZE = 64: the batch size, scaled down for the model
_BATCH_SIZE == 2

\* model_info["version"]: sentence_transformers.__version__
ModelVersion == "v1"

\* lines 86-92
_cache_key(text) == <<_MODEL_NAME, ModelVersion, text>>

\* model.encode: the vector of one text
Encode(text) == [of |-> text, by |-> ModelVersion]

\* Python's None among vectors
None == [of |-> "None", by |-> "None"]

\* the lines of a chunks file: two chunks (the second under a heading whose
\* title is the text of the first), a line that is no JSON, a line of JSON
\* that is no object
ChunkLineAlphabet ==
    {[kind |-> "chunk", text |-> "alpha", h1 |-> ""],
     [kind |-> "chunk", text |-> "beta", h1 |-> "alpha"],
     [kind |-> "malformed", text |-> "", h1 |-> ""],
     [kind |-> "not_object", text |-> "", h1 |-> ""]}

ChunkFiles == UNION {[1..n -> ChunkLineAlphabet] : n \in 0..MaxChunks}

\* line 115: the cache line of an item
CacheRecord(k, v) == [kind |-> "record", k |-> k, v |-> v]

\* a cache line that is no record: "unparseable" (no JSON), "not_object"
\* (JSON, but no object), "bad_k" (k is no string), "bad_v" (v is no list of
\* numbers)
CorruptLine(kind) == [kind |-> kind, k |-> <<>>, v |-> None]

\* the cache files a first run may find: none, lines of earlier runs (of
\* this version of the library or of an older one), corrupt lines among them
CacheSamples ==
    {<<>>,
     <<CacheRecord(_cache_key("alpha"), Encode("alpha"))>>,
     <<CacheRecord(<<_MODEL_NAME, "v0", "alpha">>, [of |-> "alpha", by |-> "v0"])>>,
     <<CorruptLine("unparseable"), CacheRecord(_cache_key("alpha"), Encode("alpha"))>>,
     <<CorruptLine("bad_k"), CorruptLine("bad_v"),
       CacheRecord(_cache_key("beta"), Encode("beta"))>>,
     <<CacheRecord(_cache_key("alpha"), Encode("alpha")), CorruptLine("not_object")>>}

\* emb_cache is the set of its items [k, v], one per key
HasKey(cache, k) == \E it \in cache : it.k = k

\* emb_cache[k] = v
Put(cache, k, v) == {it \in cache : it.k # k} \cup {[k |-> k, v |-> v]}

\* a lookup that never finds the key
CacheGetMisses(cache, k) == None

\* emb_cache.get(k)
CacheGet(cache, k) ==
    IF HasKey(cache, k) THEN (CHOOSE it \in cache : it.k = k).v ELSE None

RECURSIVE PutAll(_, _)
\* lines 147-151: emb_cache[k] = vec for every new item
PutAll(cache, its) ==
    IF its = <<>> THEN cache ELSE PutAll(Put(cache, Head(its).k, Head(its).v), Tail(its))

\* a loader that skips every line
LoadLineSkips(cache, ln) == cache

\* lines 102-108: a record with a str k and a list of numbers v is loaded,
\* any other object is skipped
LoadLine(cache, ln) == IF ln.kind = "record" THEN Put(cache, ln.k, ln.v) ELSE cache

RECURSIVE LoadCache(_, _)
\* lines 95-108: json.loads raises JSONDecodeError on a line that is no
\* JSON (skipped, line 100); rec.get raises AttributeError on JSON that is
\* no object, and nothing catches it
LoadCache(file, cache) ==
    IF file = <<>> THEN [cache |-> cache, raised |-> FALSE]
    ELSE IF Head(file).kind = "not_object" THEN [cache |-> cache, raised |-> TRUE]
    ELSE LoadCache(Tail(file), LoadLine(cache, Head(file)))

RECURSIVE Ascending(_)
\* the numbers of S in ascending order
Ascending(S) ==
    IF S = {} THEN <<>>
    ELSE LET m == CHOOSE x \in S : \A y \in S : x <= y
         IN <<m>> \o Ascending(S \ {m})

\* lines 128, 187: [i for i, e in enumerate(embs) if e is None]
ToComputeIdx(embs) == Ascending({n \in 1..Len(embs) : embs[n] = None})

\* a fill that gives the computed vectors to the first positions
FillFromFront(embs, idx, computed) ==
    [n \in 1..Len(embs) |-> IF n <= Len(computed) THEN computed[n] ELSE embs[n]]

\* lines 147-150, 206-209: embs[pos] = vec for pos, vec in zip(idx, computed)
Fill(embs, idx, computed) ==
    [n \in 1..Len(embs) |->
        IF \E m \in 1..Len(idx) : idx[m] = n
        THEN computed[CHOOSE m \in 1..Len(idx) : idx[m] = n]
        ELSE embs[n]]

\* lines 126-151, 185-210: the lookup of a list of texts in emb_cache and
\* what model.encode is asked for the misses
Resolve(cache, txts) ==
    LET keys == [n \in 1..Len(txts) |-> _cache_key(txts[n])]
        embs == [n \in 1..Len(txts) |-> CacheGet(cache, keys[n])]
        idx == ToComputeIdx(embs)
        to_compute == [m \in 1..Len(idx) |-> txts[idx[m]]]
        computed == [m \in 1..Len(idx) |-> Encode(to_compute[m])]
    IN [keys |-> keys,
        to_compute |-> to_compute,
        hit |-> \E m \in 1..Len(idx) : HasKey(cache, keys[idx[m]]),
        items |-> [m \in 1..Len(idx) |-> [k |-> keys[idx[m]], v |-> computed[m]]],
        embs |-> Fill(embs, idx, computed)]

\* lines 155, 213: [e for e in embs if e is not None]
NotNone(embs) == SelectSeq(embs, LAMBDA e : e # None)

\* lines 166-176: the (level, title) pairs of a row, by level
ordered_pairs(row) ==
    IF row.h1 # "" THEN <<[level |-> "h1", title |-> row.h1]>> ELSE <<>>

RECURSIVE PerRow(_, _, _)
\* lines 219-229: the slices of the flat heading embeddings, row by row
PerRow(counts, pairs, idx) ==
    IF counts = <<>> THEN <<>>
    ELSE LET to == IF idx + Head(counts) < Len(pairs) THEN idx + Head(counts)
                   ELSE Len(pairs)
         IN <<SubSeq(pairs, idx + 1, to)>> \o PerRow(Tail(counts), pairs, idx + Head(counts))

\* lines 237-247: the record of a row
OutRecord(row, text_emb, heading_embs) ==
    [text |-> row.text, embedding |-> text_emb, embeddings |-> heading_embs,
     headings |-> row.h1]

\* an unlink that leaves the file
UnlinkKeeps(file) == file

\* lines 254-255: out_path.unlink()
Unlink(file) == <<>>

\* before the first run: a chunks file, the cache file earlier runs left
InitEmbed ==
    /\ ChunkerAtRest
    /\ KeywordsAtRest
    /\ StoreAtRest
    /\ RerankAtRest
    /\ TitleAtRest
    /\ WordAtRest
    /\ chunk_lines \in ChunkFiles
    /\ cache_file \in CacheSamples
    /\ out_file = <<>>
    /\ epc = "idle"
    /\ peer = "off"
    /\ EmbedLocalsAtRest

\* lines 67-118 and 253-255: a run starts, loads the cache and removes the
\* output of the run before it.  An exception of the load leaves the
\* function before line 254; main (lines 299-301) returns 1.
EmbedBegin ==
    /\ epc \in {"idle", "done", "error"}
    /\ \E inc \in BOOLEAN : include_heading_embeddings' = inc
    /\ prev_run' = [ok |-> epc = "done", include |-> include_heading_embeddings,
                    out |-> out_file, cache |-> cache_file]
    /\ LET loaded == LoadCache(cache_file, {})
       IN /\ emb_cache' = loaded.cache
          /\ IF loaded.raised
             THEN /\ epc' = "error"
                  /\ err' = "cache_load"
                  /\ UNCHANGED out_file
             ELSE /\ epc' = "read"
                  /\ err' = "none"
                  /\ out_file' = Unlink(out_file)
    /\ rows' = <<>>
    /\ rd' = 1
    /\ text_embs' = <<>>
    /\ per_row_embeddings' = <<>>
    /\ new_cache_items' = <<>>
    /\ encode_log' = <<>>
    /\ hit_submitted' = FALSE
    /\ returned' = {}
    /\ batch_log' = <<>>
    /\ UNCHANGED <<chunk_lines, cache_file, peer, peer_written>>
    /\ UNCHANGED <<chunkerVars, storeVars, rerankVars, keywordVars, titleVars, wordVars>>

\* lines 258-274: one line of the input.  A blank line or a line that is no
\* JSON is skipped; item.get raises AttributeError on JSON that is no
\* object; a chunk joins the batch, and a full batch is flushed.
ReadLine ==
    /\ epc = "read"
    /\ rd <= Len(chunk_lines)
    /\ LET ln == chunk_lines[rd]
       IN CASE ln.kind = "malformed" ->
                   /\ rd' = rd + 1
                   /\ UNCHANGED <<rows, epc, err>>
            [] ln.kind = "not_object" ->
                   /\ epc' = "error"
                   /\ err' = "input"
                   /\ UNCHANGED <<rows, rd>>
            [] ln.kind = "chunk" ->
                   /\ rows' = Append(rows, ln)
                   /\ rd' = rd + 1
                   /\ epc' = IF Len(rows) + 1 >= _BATCH_SIZE THEN "flush" ELSE "read"
                   /\ UNCHANGED err
    /\ UNCHANGED <<chunk_lines, cache_file, out_file, emb_cache, include_heading_embeddings,
                   text_embs, per_row_embeddings, new_cache_items, peer, peer_written, encode_log,
                   hit_submitted, returned, batch_log, prev_run>>
    /\ UNCHANGED <<chunkerVars, storeVars, rerankVars, keywordVars, titleVars, wordVars>>

\* lines 276-279: the end of the input; the last flush_batch returns at once
\* when no row waits
ReadEnd ==
    /\ epc = "read"
    /\ rd > Len(chunk_lines)
    /\ epc' = IF rows = <<>> THEN "done" ELSE "flush"
    /\ UNCHANGED <<chunk_lines, cache_file, out_file, emb_cache, include_heading_embeddings,
                   rows, rd, text_embs, per_row_embeddings, new_cache_items, peer,
                   peer_written, err,
                   encode_log, hit_submitted, returned, batch_log, prev_run>>
    /\ UNCHANGED <<chunkerVars, storeVars, rerankVars, keywordVars, titleVars, wordVars>>

\* lines 125-151: the text vectors of the batch, from the cache or from
\* model.encode, which returns the vectors or raises.  The exception leaves
\* flush_batch and convert_chunks_to_embeddings; main returns 1.
FlushTexts ==
    /\ epc = "flush"
    /\ LET r == Resolve(emb_cache, [n \in 1..Len(rows) |-> rows[n].text])
       IN IF r.to_compute = <<>>
          THEN /\ text_embs' = r.embs
               /\ epc' = "headings"
               /\ UNCHANGED <<emb_cache, new_cache_items, err, encode_log, hit_submitted,
                              returned>>
          ELSE /\ encode_log' = Append(encode_log, r.to_compute)
               /\ hit_submitted' = (hit_submitted \/ r.hit)
               /\ \/ /\ emb_cache' = PutAll(emb_cache, r.items)
                     /\ text_embs' = r.embs
                     /\ new_cache_items' = r.items
                     /\ returned' = returned \cup {r.items[m] : m \in 1..Len(r.items)}
                     /\ epc' = "persist_texts"
                     /\ UNCHANGED err
                  \/ /\ epc' = "error"
                     /\ err' = "backend"
                     /\ UNCHANGED <<emb_cache, text_embs, new_cache_items, returned>>
    /\ UNCHANGED <<chunk_lines, cache_file, out_file, include_heading_embeddings, rows, rd,
                   per_row_embeddings, peer, peer_written, batch_log, prev_run>>
    /\ UNCHANGED <<chunkerVars, storeVars, rerankVars, keywordVars, titleVars, wordVars>>

\* lines 110-115: _persist_cache_items has the cache file open in append
\* mode and writes the next item; the file is closed after the last one
PersistWrite ==
    /\ epc \in {"persist_texts", "persist_headings"}
    /\ cache_file' = Append(cache_file,
                            CacheRecord(Head(new_cache_items).k, Head(new_cache_items).v))
    /\ new_cache_items' = Tail(new_cache_items)
    /\ epc' = IF Tail(new_cache_items) # <<>> THEN epc
              ELSE IF epc = "persist_texts" THEN "headings" ELSE "write"
    /\ UNCHANGED <<chunk_lines, out_file, emb_cache, include_heading_embeddings, rows, rd,
                   text_embs, per_row_embeddings, peer, peer_written, err, encode_log,
                   hit_submitted,
                   returned, batch_log, prev_run>>
    /\ UNCHANGED <<chunkerVars, storeVars, rerankVars, keywordVars, titleVars, wordVars>>

\* the [level, embedding] objects of the flat headings
LevelEmbeddings(flat, embs) ==
    [n \in 1..(IF Len(flat) < Len(embs) THEN Len(flat) ELSE Len(embs)) |->
        [level |-> flat[n].level, embedding |-> embs[n]]]

\* lines 157-229: the heading vectors of the batch
FlushHeadings ==
    /\ epc = "headings"
    /\ LET pairs == [n \in 1..Len(rows) |-> ordered_pairs(rows[n])]
           counts_per_row == [n \in 1..Len(rows) |-> Len(pairs[n])]
           flat == Flatten(pairs)
           r == Resolve(emb_cache, [n \in 1..Len(flat) |-> flat[n].title])
       IN IF ~include_heading_embeddings
          THEN /\ per_row_embeddings' = [n \in 1..Len(rows) |-> <<>>]
               /\ epc' = "write"
               /\ UNCHANGED <<emb_cache, new_cache_items, err, encode_log, hit_submitted,
                              returned>>
          ELSE IF r.to_compute = <<>>
          THEN /\ per_row_embeddings' =
                      PerRow(counts_per_row, LevelEmbeddings(flat, NotNone(r.embs)), 0)
               /\ epc' = "write"
               /\ UNCHANGED <<emb_cache, new_cache_items, err, encode_log, hit_submitted,
                              returned>>
          ELSE /\ encode_log' = Append(encode_log, r.to_compute)
               /\ hit_submitted' = (hit_submitted \/ r.hit)
               /\ \/ /\ emb_cache' = PutAll(emb_cache, r.items)
                     /\ per_row_embeddings' =
                            PerRow(counts_per_row, LevelEmbeddings(flat, NotNone(r.embs)), 0)
                     /\ new_cache_items' = r.items
                     /\ returned' = returned \cup {r.items[m] : m \in 1..Len(r.items)}
                     /\ epc' = "persist_headings"
                     /\ UNCHANGED err
                  \/ /\ epc' = "error"
                     /\ err' = "backend"
                     /\ UNCHANGED <<emb_cache, per_row_embeddings, new_cache_items,
                                    returned>>
    /\ UNCHANGED <<chunk_lines, cache_file, out_file, include_heading_embeddings, rows, rd,
                   text_embs, peer, peer_written, batch_log, prev_run>>
    /\ UNCHANGED <<chunkerVars, storeVars, rerankVars, keywordVars, titleVars, wordVars>>

\* lines 231-251: the records of the batch are appended to the output
FlushWrite ==
    /\ epc = "write"
    /\ LET text_embs_filled == NotNone(text_embs)
           n == Len(rows)
           m == IF Len(text_embs_filled) < n THEN Len(text_embs_filled) ELSE n
           z == IF Len(per_row_embeddings) < m THEN Len(per_row_embeddings) ELSE m
       IN out_file' = out_file \o
              [j \in 1..z |-> OutRecord(rows[j], text_embs_filled[j], per_row_embeddings[j])]
    /\ batch_log' = Append(batch_log, Len(rows))
    /\ rows' = <<>>
    /\ text_embs' = <<>>
    /\ per_row_embeddings' = <<>>
    /\ epc' = "read"
    /\ UNCHANGED <<chunk_lines, cache_file, emb_cache, include_heading_embeddings, rd,
                   new_cache_items, peer, peer_written, err, encode_log, hit_submitted, returned,
                   prev_run>>
    /\ UNCHANGED <<chunkerVars, storeVars, rerankVars, keywordVars, titleVars, wordVars>>

NextEmbed ==
    \/ EmbedBegin
    \/ ReadLine
    \/ ReadEnd
    \/ FlushTexts
    \/ PersistWrite
    \/ FlushHeadings
    \/ FlushWrite

SpecEmbed == InitEmbed /\ [][NextEmbed]_vars

\* the chunks file is also worked on by another embedding process
InitEmbedPeer ==
    /\ ChunkerAtRest
    /\ KeywordsAtRest
    /\ StoreAtRest
    /\ RerankAtRest
    /\ TitleAtRest
    /\ WordAtRest
    /\ chunk_lines \in ChunkFiles
    /\ cache_file \in CacheSamples
    /\ out_file = <<>>
    /\ epc = "idle"
    /\ peer = "out"
    /\ EmbedLocalsAtRest

\* lines 111-113 in the other process: _persist_cache_items opens the cache
\* file in append mode; nothing is waited for
PeerPersistOpen ==
    /\ peer = "out"
    /\ peer' = "in"
    /\ UNCHANGED peer_written
    /\ UNCHANGED <<chunk_lines, cache_file, out_file, emb_cache, include_heading_embeddings,
                   rows, rd, epc, text_embs, per_row_embeddings, new_cache_items, err,
                   encode_log, hit_submitted, returned, batch_log, prev_run>>
    /\ UNCHANGED <<chunkerVars, storeVars, rerankVars, keywordVars, titleVars, wordVars>>

\* lines 114-115 in the other process: it writes the item of a text of the
\* input and leaves _persist_cache_items
PeerPersistWrite ==
    /\ peer = "in"
    /\ \E t \in {"alpha", "beta"} :
          cache_file' = Append(cache_file, CacheRecord(_cache_key(t), Encode(t)))
    /\ peer' = "closed"
    /\ UNCHANGED peer_written
    /\ UNCHANGED <<chunk_lines, out_file, emb_cache, include_heading_embeddings,
                   rows, rd, epc, text_embs, per_row_embeddings, new_cache_items, err,
                   encode_log, hit_submitted, returned, batch_log, prev_run>>
    /\ UNCHANGED <<chunkerVars, storeVars, rerankVars, keywordVars, titleVars, wordVars>>

NextEmbedPeer ==
    \/ NextEmbed
    \/ PeerPersistOpen
    \/ PeerPersistWrite

SpecEmbedPeer == InitEmbedPeer /\ [][NextEmbedPeer]_vars

RECURSIVE ReadableRows(_)
\* lines 258-274: the chunks a run reads from a chunks file, up to the line
\* that ends it (JSON that is no object)
ReadableRows(file) ==
    IF file = <<>> THEN <<>>
    ELSE IF Head(file).kind = "not_object" THEN <<>>
    ELSE IF Head(file).kind = "chunk" THEN <<Head(file)>> \o ReadableRows(Tail(file))
    ELSE ReadableRows(Tail(file))

\* the chunks whose records a run writes: all of them, or the full batches
\* read before the line that ends the run
WrittenRows(file) ==
    LET r == ReadableRows(file)
    IN IF \E n \in 1..Len(file) : file[n].kind = "not_object"
       THEN SubSeq(r, 1, Len(r) - (Len(r) % _BATCH_SIZE))
       ELSE r

\* two runs of convert_chunks_to_embeddings on one chunks file, at the same
\* time, with the same output path
InitEmbedTwoRuns ==
    /\ ChunkerAtRest
    /\ KeywordsAtRest
    /\ StoreAtRest
    /\ RerankAtRest
    /\ TitleAtRest
    /\ WordAtRest
    /\ chunk_lines \in ChunkFiles
    /\ cache_file \in CacheSamples
    /\ out_file = <<>>
    /\ epc = "idle"
    /\ peer = "start"
    /\ EmbedLocalsAtRest

\* the one run of this process
EmbedBeginOnce ==
    /\ epc = "idle"
    /\ EmbedBegin

\* lines 253-255 in the other process: it removes the output file
PeerUnlink ==
    /\ peer = "start"
    /\ peer' = "run"
    /\ out_file' = Unlink(out_file)
    /\ UNCHANGED <<chunk_lines, cache_file, emb_cache, include_heading_embeddings,
                   rows, rd, epc, text_embs, per_row_embeddings, new_cache_items,
                   peer_written, err, encode_log, hit_submitted, returned, batch_log,
                   prev_run>>
    /\ UNCHANGED <<chunkerVars, storeVars, rerankVars, keywordVars, titleVars, wordVars>>

\* lines 231-251 in the other process: it appends the records of its next
\* batch (run without heading vectors) to the output file
PeerFlushWrite ==
    /\ peer = "run"
    /\ peer_written < Len(WrittenRows(chunk_lines))
    /\ LET w == WrittenRows(chunk_lines)
           left == Len(w) - peer_written
           n == IF left < _BATCH_SIZE THEN left ELSE _BATCH_SIZE
       IN /\ out_file' = out_file \o
                 [j \in 1..n |-> OutRecord(w[peer_written + j],
                                           Encode(w[peer_written + j].text), <<>>)]
          /\ peer_written' = peer_written + n
    /\ UNCHANGED <<chunk_lines, cache_file, emb_cache, include_heading_embeddings,
                   rows, rd, epc, text_embs, per_row_embeddings, new_cache_items, peer,
                   err, encode_log, hit_submitted, returned, batch_log, prev_run>>
    /\ UNCHANGED <<chunkerVars, storeVars, rerankVars, keywordVars, titleVars, wordVars>>

NextEmbedTwoRuns ==
    \/ EmbedBeginOnce
    \/ ReadLine
    \/ ReadEnd
    \/ FlushTexts
    \/ PersistWrite
    \/ FlushHeadings
    \/ FlushWrite
    \/ PeerUnlink
    \/ PeerFlushWrite

SpecEmbedTwoRuns == InitEmbedTwoRuns /\ [][NextEmbedTwoRuns]_vars

(***************************************************************************)
(* Part 6.  pipeline/create_chunks.py: the basic chunker.  It has the      *)
(* state of the advanced one (lines, i, headings, chunks; its buffer_lines *)
(* is held in buffer_blocks), the same estimate_tokens, _heading_re and    *)
(* parse_table_block, no list blocks, and it packs line by line.           *)
(***************************************************************************)
RECURSIVE BasicPackLines(_, _, _, _)
\* lines 196-207: the loop over the lines of the text: the out_lines lists
\* that are finalized, in order.  Line 204 sets approx to new_approx also
\* after a flush.
BasicPackLines(text, out_lines, approx, size) ==
    IF text = <<>>
    THEN IF out_lines # <<>> THEN <<out_lines>> ELSE <<>>
    ELSE LET ln == Head(text)
             new_approx == approx + estimate_tokens(<<ln>>)
         IN IF out_lines # <<>> /\ new_approx > size
            THEN <<out_lines>> \o BasicPackLines(Tail(text), <<ln>>, new_approx, size)
            ELSE BasicPackLines(Tail(text), Append(out_lines, ln), new_approx, size)

\* lines 167-172 and 196: the lines that are packed: none when the buffer
\* is empty or blank, else text.splitlines() of the stripped text
BasicText(buf) == Strip(Flatten(buf))

\* lines 179-194: the chunk appended by finalize_one when n chunks exist
BasicFinalizeOne(out_lines, hd, n) ==
    [chunk_id |-> [file |-> SourceName, h |-> DOMAIN hd, n |-> n + 1],
     text |-> Strip(out_lines),
     headings |-> current_headings_meta(hd),
     approx_tokens |-> estimate_tokens(Strip(out_lines))]

\* lines 165-209: the chunks list after emit_buffer_as_chunks()
BasicEmitChunks(chs, buf, hd, size) ==
    LET groups == BasicPackLines(BasicText(buf), <<>>, 0, size)
    IN chs \o [g \in 1..Len(groups) |-> BasicFinalizeOne(groups[g], hd, Len(chs) + g - 1)]

\* history: the out_lines of the chunks of this flush, every line a block
BasicEmitPacked(pk, buf, size, fl) ==
    LET groups == BasicPackLines(BasicText(buf), <<>>, 0, size)
    IN pk \o [g \in 1..Len(groups) |->
                [blocks |-> [n \in 1..Len(groups[g]) |-> <<groups[g][n]>>], flush |-> fl]]

\* lines 150-157: before the line loop
InitBasicChunker == InitChunker

\* lines 216-230: a heading line
BasicScanHeading ==
    /\ pc = "scan"
    /\ i <= Len(lines)
    /\ IsHeading(lines[i])
    /\ chunks' = BasicEmitChunks(chunks, buffer_blocks, headings, budget)
    /\ packed' = BasicEmitPacked(packed, buffer_blocks, budget, flushes)
    /\ flushes' = flushes + 1
    /\ buffer_blocks' = <<>>
    /\ headings' = SetHeading(headings, lines[i].hashes, lines[i].title)
    /\ i' = i + 1
    /\ UNCHANGED <<lines, budget, pc>>
    /\ UNCHANGED <<storeVars, rerankVars, embedVars, keywordVars, titleVars, wordVars>>

\* lines 232-237: a table
BasicScanTable ==
    /\ pc = "scan"
    /\ i <= Len(lines)
    /\ ~IsHeading(lines[i])
    /\ IsTableStart(i)
    /\ LET t == parse_table_block(i)
       IN /\ buffer_blocks' = Append(buffer_blocks, t.text)
          /\ i' = t.next
    /\ UNCHANGED <<lines, budget, headings, chunks, pc, packed, flushes>>
    /\ UNCHANGED <<storeVars, rerankVars, embedVars, keywordVars, titleVars, wordVars>>

\* lines 239-241: a regular text line
BasicScanText ==
    /\ pc = "scan"
    /\ i <= Len(lines)
    /\ ~IsHeading(lines[i])
    /\ ~IsTableStart(i)
    /\ buffer_blocks' = Append(buffer_blocks, <<RawLine(i)>>)
    /\ i' = i + 1
    /\ UNCHANGED <<lines, budget, headings, chunks, pc, packed, flushes>>
    /\ UNCHANGED <<storeVars, rerankVars, embedVars, keywordVars, titleVars, wordVars>>

\* lines 243-250: the last flush and the final ids
BasicFinish ==
    /\ pc = "scan"
    /\ i > Len(lines)
    /\ chunks' = Renumber(BasicEmitChunks(chunks, buffer_blocks, headings, budget))
    /\ packed' = BasicEmitPacked(packed, buffer_blocks, budget, flushes)
    /\ flushes' = flushes + 1
    /\ buffer_blocks' = <<>>
    /\ pc' = "done"
    /\ UNCHANGED <<lines, budget, i, headings>>
    /\ UNCHANGED <<storeVars, rerankVars, embedVars, keywordVars, titleVars, wordVars>>

NextBasicChunker ==
    \/ BasicScanHeading
    \/ BasicScanTable
    \/ BasicScanText
    \/ BasicFinish

SpecBasicChunker == InitBasicChunker /\ [][NextBasicChunker]_vars

(***************************************************************************)
(* Part 7.  process_chunks_add_title.py: process_file.  A text is the      *)
(* sequence of its lines, as in the chunker; a headings object maps keys   *)
(* to titles.                                                              *)
(***************************************************************************)
\* int(key[1:]) of a key "h<n>"
HeadingLevel(key) ==
    CASE key = "h1" -> 1
      [] key = "h2" -> 2
      [] key = "h9" -> 9

\* value.strip()
TitleStrip(title) ==
    CASE title = " Sub part " -> "Sub part"
      [] title = "  " -> ""
      [] OTHER -> title

\* len(title.split())
TitleWords(title) ==
    CASE title = "Intro" -> 1
      [] title = "Deep" -> 1
      [] title = "Sub part" -> 2
      [] title = " Sub part " -> 2
      [] OTHER -> 0

\* a record of a chunks file, as the chunker writes it: approx_tokens is the
\* word count of the text
ChunkRecord(text, hd) ==
    [kind |-> "record", text |-> text, headings |-> hd,
     approx_tokens |-> estimate_tokens(text)]

\* the lines of a chunks file: records without a heading, under one heading,
\* under two, under a blank title and a key that is no level; a blank line;
\* a line that is no JSON
TitleLineAlphabet ==
    {ChunkRecord(<<TextLine(1, "para", 1)>>, <<>>),
     ChunkRecord(<<TextLine(1, "- item", 2)>>, [key \in {"h1"} |-> "Intro"]),
     ChunkRecord(<<TextLine(1, "para", 1), TextLine(2, "para", 1)>>,
                 [key \in {"h1", "h2"} |-> IF key = "h1" THEN "Intro" ELSE " Sub part "]),
     ChunkRecord(<<TextLine(1, "para", 1)>>,
                 [key \in {"h1", "h9"} |-> IF key = "h1" THEN "  " ELSE "Deep"]),
     [kind |-> "blank", text |-> <<>>, headings |-> <<>>, approx_tokens |-> 0],
     [kind |-> "malformed", text |-> <<>>, headings |-> <<>>, approx_tokens |-> 0]}

TitleFiles == UNION {[1..n -> TitleLineAlphabet] : n \in 0..MaxRecords}

\* lines 23-49: the stripped title of the deepest level 1..6 whose title is
\* not blank; "" stands for None
_deepest_heading_text(hd) ==
    LET valid == {key \in DOMAIN hd :
                     /\ HeadingLevel(key) \in 1..6
                     /\ TitleStrip(hd[key]) # ""}
    IN IF valid = {} THEN ""
       ELSE LET best == CHOOSE key \in valid :
                           \A other \in valid : HeadingLevel(other) <= HeadingLevel(key)
            IN TitleStrip(hd[best])

\* line 81: f"{deepest}{DELIMITER}{text}"
PrefixText(deepest, text) ==
    <<TextLine(0, deepest, TitleWords(deepest)), EmptyLine>> \o text

\* lines 63-83: what is written for one line of the input
ProcessedLine(line) ==
    IF line.kind # "record" THEN line
    ELSE LET deepest == _deepest_heading_text(line.headings)
         IN IF deepest # ""
            THEN [line EXCEPT !.text = PrefixText(deepest, line.text)]
            ELSE line

\* lines 58-62: the files are opened
InitTitle ==
    /\ ChunkerAtRest
    /\ StoreAtRest
    /\ RerankAtRest
    /\ EmbedAtRest
    /\ KeywordsAtRest
    /\ WordAtRest
    /\ fin \in TitleFiles
    /\ fout = <<>>

\* lines 63-83: one iteration of the loop over the input lines
ProcessLine ==
    /\ Len(fout) < Len(fin)
    /\ fout' = Append(fout, ProcessedLine(fin[Len(fout) + 1]))
    /\ UNCHANGED fin
    /\ UNCHANGED <<chunkerVars, storeVars, rerankVars, embedVars, keywordVars, wordVars>>

NextTitle == ProcessLine

SpecTitle == InitTitle /\ [][NextTitle]_vars

(***************************************************************************)
(* Part 8.  awsgpu/parse_word.py: build_chunks.  A block is (kind, text,   *)
(* level) with the word count of its text; the texts of a chunk are kept   *)
(* with the index of the block they come from.                             *)
(***************************************************************************)
\* the blocks parse_docx_to_blocks gives: headings of level 1 and 2, a
\* paragraph, a table
BlockAlphabet ==
    {[kind |-> "heading", text |-> "A", level |-> 1, w |-> 1],
     [kind |-> "heading", text |-> "B", level |-> 2, w |-> 1],
     [kind |-> "paragraph", text |-> "para", level |-> 0, w |-> 1],
     [kind |-> "table", text |-> "a: 1; b: 2", level |-> 0, w |-> 4]}

Documents == UNION {[1..n -> BlockAlphabet] : n \in 0..MaxBlocks}

\* lines 157-163: max(1, int(words * 1.333))
approx_tokens_for_text(words) == Max({1, (words * 1333) \div 1000})

RECURSIVE PopTo(_, _)
\* lines 211-212: while len(current_headings) >= level: pop()
PopTo(stack, level) ==
    IF Len(stack) >= level /\ stack # <<>>
    THEN PopTo(SubSeq(stack, 1, Len(stack) - 1), level)
    ELSE stack

\* lines 187-204: the chunks list after emit_current_chunk()
emit_current_chunk(chs, acc, hd, id) ==
    IF acc = <<>> THEN chs
    ELSE Append(chs,
                [chunk_id |-> id,
                 text |-> acc,
                 headings |-> hd,
                 approx_tokens |->
                     approx_tokens_for_text(SumSeq([k \in 1..Len(acc) |-> acc[k].w]))])

\* lines 181-185: before the loop
InitWord ==
    /\ ChunkerAtRest
    /\ StoreAtRest
    /\ RerankAtRest
    /\ EmbedAtRest
    /\ KeywordsAtRest
    /\ TitleAtRest
    /\ docx_blocks \in Documents
    /\ chunk_size_tokens \in 1..MaxBudget
    /\ block_idx = 1
    /\ current_headings = <<>>
    /\ accumulator_lines = <<>>
    /\ accumulator_tokens = 0
    /\ next_chunk_id = 0
    /\ docx_chunks = <<>>
    /\ wpc = "loop"

\* lines 207-218: a heading: the stack is updated, then the chunk being
\* built is emitted
WordHeading ==
    /\ wpc = "loop"
    /\ block_idx <= Len(docx_blocks)
    /\ docx_blocks[block_idx].kind = "heading"
    /\ LET stack == Append(PopTo(current_headings, docx_blocks[block_idx].level),
                           docx_blocks[block_idx].text)
       IN /\ current_headings' = stack
          /\ docx_chunks' = emit_current_chunk(docx_chunks, accumulator_lines, stack,
                                               next_chunk_id)
    /\ next_chunk_id' = IF accumulator_lines # <<>> THEN next_chunk_id + 1
                      ELSE next_chunk_id
    /\ accumulator_lines' = <<>>
    /\ accumulator_tokens' = 0
    /\ block_idx' = block_idx + 1
    /\ UNCHANGED <<docx_blocks, chunk_size_tokens, wpc>>
    /\ UNCHANGED <<chunkerVars, storeVars, rerankVars, embedVars, keywordVars, titleVars>>

\* lines 220-225: a paragraph or a table
WordBlock ==
    /\ wpc = "loop"
    /\ block_idx <= Len(docx_blocks)
    /\ docx_blocks[block_idx].kind # "heading"
    /\ LET added_tokens == approx_tokens_for_text(docx_blocks[block_idx].w)
           flush == /\ accumulator_lines # <<>>
                    /\ accumulator_tokens + added_tokens > chunk_size_tokens
           line == [src |-> block_idx, txt |-> docx_blocks[block_idx].text,
                    w |-> docx_blocks[block_idx].w]
       IN /\ docx_chunks' = IF flush
                            THEN emit_current_chunk(docx_chunks, accumulator_lines,
                                                    current_headings, next_chunk_id)
                            ELSE docx_chunks
          /\ next_chunk_id' = IF flush THEN next_chunk_id + 1 ELSE next_chunk_id
          /\ accumulator_lines' = IF flush THEN <<line>> ELSE Append(accumulator_lines, line)
          /\ accumulator_tokens' = (IF flush THEN 0 ELSE accumulator_tokens) + added_tokens
    /\ block_idx' = block_idx + 1
    /\ UNCHANGED <<docx_blocks, chunk_size_tokens, current_headings, wpc>>
    /\ UNCHANGED <<chunkerVars, storeVars, rerankVars, embedVars, keywordVars, titleVars>>

\* lines 227-229: the last chunk
WordFinish ==
    /\ wpc = "loop"
    /\ block_idx > Len(docx_blocks)
    /\ docx_chunks' = emit_current_chunk(docx_chunks, accumulator_lines, current_headings,
                                         next_chunk_id)
    /\ next_chunk_id' = IF accumulator_lines # <<>> THEN next_chunk_id + 1
                      ELSE next_chunk_id
    /\ accumulator_lines' = <<>>
    /\ accumulator_tokens' = 0
    /\ wpc' = "done"
    /\ UNCHANGED <<docx_blocks, chunk_size_tokens, block_idx, current_headings>>
    /\ UNCHANGED <<chunkerVars, storeVars, rerankVars, embedVars, keywordVars, titleVars>>

NextWord ==
    \/ WordHeading
    \/ WordBlock
    \/ WordFinish

SpecWord == InitWord /\ [][NextWord]_vars

(***************************************************************************)
(* Part 5.  collect_keywords.py: extract_keywords_spacy.  What spaCy finds *)
(* in a text is the input: a list of occurrences, each with the tokens     *)
(* _normalize_tokens gives for it.  A phrase is the sequence of its words; *)
(* scores are counted in quarters (1.0 is 4, the length boost 0.25 is 1).  *)
(***************************************************************************)
\* len(word)
WordChars(word) ==
    CASE word = "ia" -> 2
      [] word = "rag" -> 3
      [] word = "base" -> 4

\* len(phrase.replace(" ", ""))
CompactChars(phrase) == SumSeq([k \in 1..Len(phrase) |-> WordChars(phrase[k])])

\* len(phrase) of " ".join(words)
PhraseChars(phrase) ==
    IF phrase = <<>> THEN 0 ELSE CompactChars(phrase) + (Len(phrase) - 1)

\* lines 69-72
_valid_phrase(phrase) == CompactChars(phrase) >= 3

\* the occurrences of a text: entities (doc.ents), noun chunks, quoted
\* names and n-grams of content tokens
Occurrences ==
    {[src |-> "ent", label |-> "ORG", toks |-> <<"rag">>],
     [src |-> "ent", label |-> "PER", toks |-> <<"base">>],
     [src |-> "ent", label |-> "ORG", toks |-> <<"base", "rag", "ia", "rag">>],
     [src |-> "np", label |-> "", toks |-> <<"base", "rag", "ia", "rag">>],
     [src |-> "quoted", label |-> "", toks |-> <<"ia">>],
     [src |-> "gram", label |-> "", toks |-> <<"rag">>],
     [src |-> "gram", label |-> "", toks |-> <<"base">>],
     [src |-> "gram", label |-> "", toks |-> <<"base", "rag">>],
     [src |-> "gram", label |-> "", toks |-> <<"ia">>]}

\* the order in which the function walks the occurrences (lines 116-160)
SrcRank(src) ==
    CASE src = "ent" -> 1
      [] src = "np" -> 2
      [] src = "quoted" -> 3
      [] src = "gram" -> 4

Docs ==
    {d \in UNION {[1..n -> Occurrences] : n \in 0..MaxOcc} :
        \A k \in 1..(Len(d) - 1) : SrcRank(d[k].src) <= SrcRank(d[k + 1].src)}

\* lines 116-160: the phrase an occurrence counts for and its weight;
\* ok is FALSE when the occurrence is passed over
Contribution(occ) ==
    LET toks == IF occ.src = "np" /\ Len(occ.toks) > 3
                THEN SubSeq(occ.toks, 1, 3)
                ELSE occ.toks
        weight == CASE occ.src = "ent" ->
                          (IF occ.label \in {"ORG", "PRODUCT", "WORK_OF_ART", "MISC"}
                           THEN 12 ELSE 8)
                    [] occ.src = "np" -> 6
                    [] occ.src = "quoted" -> 10
                    [] occ.src = "gram" -> 4
    IN [ok |-> Len(toks) >= 1 /\ Len(toks) <= 3 /\ _valid_phrase(toks),
        phrase |-> toks,
        weight |-> weight]

\* candidates[phrase] += weight on a Counter, whose keys keep the order of
\* their first addition
AddCount(cands, phrase, weight) ==
    IF \E k \in 1..Len(cands) : cands[k].phrase = phrase
    THEN [k \in 1..Len(cands) |->
             IF cands[k].phrase = phrase
             THEN [cands[k] EXCEPT !.count = @ + weight]
             ELSE cands[k]]
    ELSE Append(cands, [phrase |-> phrase, count |-> weight])

RECURSIVE Candidates(_, _)
\* lines 112-160: the Counter after the occurrences of doc were walked
Candidates(doc, cands) ==
    IF doc = <<>> THEN cands
    ELSE LET c == Contribution(Head(doc))
         IN Candidates(Tail(doc),
                       IF c.ok THEN AddCount(cands, c.phrase, c.weight) ELSE cands)

\* lines 166-169: (phrase, count + 0.25 * (words - 1))
Scored(cands) ==
    [k \in 1..Len(cands) |->
        [phrase |-> cands[k].phrase,
         score |-> cands[k].count + (Len(cands[k].phrase) - 1)]]

\* the sort key (score, len(phrase)) of a is at least that of b
KeyGeq(a, b) ==
    \/ a.score > b.score
    \/ a.score = b.score /\ PhraseChars(a.phrase) >= PhraseChars(b.phrase)

\* x put after the elements whose key is at least its own
InsertByKey(sorted, x) ==
    LET n == Cardinality({k \in 1..Len(sorted) : KeyGeq(sorted[k], x)})
    IN SubSeq(sorted, 1, n) \o <<x>> \o SubSeq(sorted, n + 1, Len(sorted))

RECURSIVE SortScored(_, _)
\* line 172: scored.sort(key=lambda x: (x[1], len(x[0])), reverse=True), a
\* stable sort
SortScored(scored, sorted) ==
    IF scored = <<>> THEN sorted
    ELSE SortScored(Tail(scored), InsertByKey(sorted, Head(scored)))

RECURSIVE TakeUntil(_, _, _, _)
\* lines 177-183 and 187-193: the loop over scored that appends every phrase
\* not yet seen and breaks once the list holds limit phrases
TakeUntil(scored, k, sel, limit) ==
    IF k > Len(scored) THEN sel
    ELSE IF \E m \in 1..Len(sel) : sel[m] = scored[k].phrase
         THEN TakeUntil(scored, k + 1, sel, limit)
    ELSE LET sel2 == Append(sel, scored[k].phrase)
         IN IF Len(sel2) >= limit THEN sel2
            ELSE TakeUntil(scored, k + 1, sel2, limit)

\* lines 102-192, for a text that is not blank
extract_keywords_spacy(doc, min, max) ==
    LET scored == SortScored(Scored(Candidates(doc, <<>>)), <<>>)
        first == TakeUntil(scored, 1, <<>>, max)
    IN IF Len(first) < min THEN TakeUntil(scored, 1, first, min) ELSE first

\* main (lines 274-275) calls with min_kw = max(0, --min) and
\* max_kw = max(--min, --max)
InitKeywords ==
    /\ ChunkerAtRest
    /\ StoreAtRest
    /\ RerankAtRest
    /\ EmbedAtRest
    /\ TitleAtRest
    /\ WordAtRest
    /\ kw_doc \in Docs
    /\ min_kw \in 0..MaxKw
    /\ max_kw \in min_kw..MaxKw
    /\ selected = <<>>
    /\ kpc = "call"

\* line 275: kws = extract_keywords_spacy(text, nlp, min_kw, max_kw)
ExtractKeywords ==
    /\ kpc = "call"
    /\ selected' = extract_keywords_spacy(kw_doc, min_kw, max_kw)
    /\ kpc' = "done"
    /\ UNCHANGED <<kw_doc, min_kw, max_kw>>
    /\ UNCHANGED <<chunkerVars, storeVars, rerankVars, embedVars, titleVars, wordVars>>

NextKeywords == ExtractKeywords

SpecKeywords == InitKeywords /\ [][NextKeywords]_vars

(***************************************************************************)
(* Properties of the chunker.                                              *)
(***************************************************************************)
\* the words of a text, one by one: <<line, position in the line>>
WordPositions(text) ==
    UNION {{<<l, p>> : p \in 1..text[l].w} : l \in 1..Len(text)}

WordCount(text) == Cardinality(WordPositions(text))

\* the source lines that hold the content of chunk k
ChunkSrc(k) == {chunks[k].text[t].src : t \in 1..Len(chunks[k].text)} \ {0}

\* the source lines that hold the content of the buffered blocks
BufferSrc ==
    {Flatten(buffer_blocks)[t].src : t \in 1..Len(Flatten(buffer_blocks))} \ {0}

HeadingLines == {h \in 1..Len(lines) : IsHeading(lines[h])}

\* C1: no chunk's text holds a heading line of the source, no chunk holds
\* content from both sides of a heading line, and a heading line closes the
\* chunk being built: once the scan is past heading line h, nothing taken
\* from a line before h is still buffered, and h itself is content of no chunk.
C1_HeadingClosesChunk ==
    \A h \in HeadingLines :
        /\ \A k \in 1..Len(chunks) :
              /\ \A t \in 1..Len(chunks[k].text) : chunks[k].text[t].txt # lines[h].txt
              /\ ~(\E a, b \in ChunkSrc(k) : a < h /\ h < b)
              /\ h \notin ChunkSrc(k)
        /\ (h < i) => (\A a \in BufferSrc : a > h)

RECURSIVE ActiveMap(_)
\* the heading map after processing, in order, every heading line before line p
ActiveMap(p) ==
    IF p <= 1 THEN <<>>
    ELSE IF IsHeading(lines[p - 1])
         THEN SetHeading(ActiveMap(p - 1), lines[p - 1].hashes, lines[p - 1].title)
         ELSE ActiveMap(p - 1)

\* C2: in every state, every emitted chunk carries the active heading map at
\* the position of each line of its content (so the map stored in a chunk
\* never changes after the chunk was emitted).
C2_HeadingsAreActiveMap ==
    \A k \in 1..Len(chunks) :
        \A s \in ChunkSrc(k) : chunks[k].headings = ActiveMap(s)

\* a list block of the source starts at s: a list item that no earlier list
\* block reaches
IsListBlockStart(s) ==
    /\ s \in 1..Len(lines)
    /\ _is_list_item_start(lines[s])
    /\ ~(\E s0 \in 1..(s - 1) : _is_list_item_start(lines[s0]) /\ ListEnd(s0) > s)

\* the source lines s..e-1 stand in chunk k, contiguous and in order
HoldsLines(k, s, e) ==
    \E p \in 1..Len(chunks[k].text) :
        /\ p + (e - s) - 1 <= Len(chunks[k].text)
        /\ \A q \in 0..(e - s - 1) :
              /\ chunks[k].text[p + q].src = s + q
              /\ chunks[k].text[p + q].txt \in {lines[s + q].txt, LStrip(lines[s + q].txt)}

\* C3: after the run, every list block of the source stands whole, contiguous
\* and in order, in exactly one chunk.
C3_ListBlockInOneChunk ==
    (pc = "done") =>
        \A s \in 1..Len(lines) :
            IsListBlockStart(s) =>
                Cardinality({k \in 1..Len(chunks) : HoldsLines(k, s, ListEnd(s))}) = 1

\* a line of a paragraph: plain text, no heading, list line, table line or blank
IsParagraphLine(ln) ==
    ~IsHeading(ln) /\ ~ln.item /\ ~ln.indent /\ ~ln.pipe /\ ~IsBlank(ln)

\* C4: after the run, when a paragraph precedes a list block with only blank
\* lines between them, the paragraph's last line and the list's first line are
\* in the same chunk (stated for the lists the scan parses as lists).
C4_ParagraphSharesChunkWithList ==
    (pc = "done") =>
        \A s \in 1..Len(lines) :
            (/\ IsListBlockStart(s)
             /\ ~IsTableStart(s)
             /\ PrevNonBlank(s) # 0
             /\ IsParagraphLine(lines[PrevNonBlank(s)]))
            => \E k \in 1..Len(chunks) : {PrevNonBlank(s), s} \subseteq ChunkSrc(k)

\* C5: a chunk is closed only when the next block does not fit: two successive
\* chunks of one flush (no heading between them) have tokens(earlier) +
\* tokens(first block of the later) > budget; and every chunk's text is its
\* blocks, whole.
C5_GreedyPacking ==
    /\ Len(packed) = Len(chunks)
    /\ \A k \in 1..Len(chunks) :
          /\ packed[k].blocks # <<>>
          /\ chunks[k].text = Strip(Flatten(packed[k].blocks))
    /\ \A k \in 1..(Len(chunks) - 1) :
          (packed[k].flush = packed[k + 1].flush) =>
              chunks[k].approx_tokens + WordCount(packed[k + 1].blocks[1]) > budget

\* C5 case: two chunks of one flush, one of them a single block over the budget
C5_Witness ==
    /\ pc = "done"
    /\ \E k \in 1..(Len(chunks) - 1) :
          /\ packed[k].flush = packed[k + 1].flush
          /\ Len(packed[k + 1].blocks) = 1
          /\ chunks[k + 1].approx_tokens > budget


\* C6: approx_tokens is the number of words of the chunk's text, and at least
\* 1 when the text is not the empty string.
C6_ApproxTokensIsWordCount ==
    \A k \in 1..Len(chunks) :
        /\ chunks[k].approx_tokens = WordCount(chunks[k].text)
        /\ (chunks[k].text # <<>>) => chunks[k].approx_tokens >= 1

\* C6 case: a chunk of several lines and several words
C6_Witness ==
    \E k \in 1..Len(chunks) :
        Len(chunks[k].text) >= 2 /\ chunks[k].approx_tokens >= 3

\* C7: the returned chunks have the ids <stem>-1 .. <stem>-N in the order of
\* the list, and the list is in reading order: the content of an earlier chunk
\* precedes the content of a later chunk in the source.
C7_SequentialIds ==
    (pc = "done") =>
        /\ \A k \in 1..Len(chunks) :
              chunks[k].chunk_id = [file |-> SourceStem, h |-> {}, n |-> k]
        /\ \A k, m \in 1..Len(chunks) :
              (k < m) => \A a \in ChunkSrc(k), b \in ChunkSrc(m) : a < b

\* C7 case: a run that returns chunks of two heading scopes
C7_Witness ==
    /\ pc = "done"
    /\ Len(chunks) >= 3
    /\ \E k \in 1..(Len(chunks) - 1) : chunks[k].headings # chunks[k + 1].headings

\* a line with "|" at which no table starts, and that is neither a heading
\* nor a list item
PipeWithoutSeparator(p) ==
    /\ p \in 1..Len(lines)
    /\ lines[p].pipe
    /\ ~(p + 1 <= Len(lines) /\ lines[p + 1].sep)
    /\ ~IsHeading(lines[p])
    /\ ~_is_list_item_start(lines[p])

\* one iteration of the scan loop: at least one line is consumed and the
\* index stays within the source; past the last line the run ends; a line
\* with "|" and no separator line after it is buffered, alone and verbatim,
\* as a paragraph line
C22_Iteration ==
    (pc = "scan") =>
        /\ (i <= Len(lines)) => (pc' = "scan" /\ i' > i /\ i' <= Len(lines) + 1)
        /\ (i > Len(lines)) => (pc' = "done")
        /\ PipeWithoutSeparator(i) =>
              /\ i' = i + 1
              /\ buffer_blocks' =
                    Append(buffer_blocks,
                           <<[src |-> i, txt |-> lines[i].txt, w |-> lines[i].w]>>)
              /\ chunks' = chunks

IsHeadingBlankList ==
    /\ Len(lines) >= 3
    /\ IsHeading(lines[1])
    /\ IsBlank(lines[2])
    /\ \E s \in 3..Len(lines) :
          /\ \A b \in 2..(s - 1) : IsBlank(lines[b])
          /\ _is_list_item_start(lines[s])
          /\ ~lines[s].pipe
          /\ ListEnd(s) = Len(lines) + 1

\* C26: no emitted chunk has the empty string as its text, and a source made
\* of a heading, a blank line and a list block larger than the budget yields
\* exactly one chunk.
C26_NoEmptyChunk ==
    /\ \A k \in 1..Len(chunks) : chunks[k].text # <<>>
    /\ (pc = "done" /\ IsHeadingBlankList
        /\ SumSeq([k \in 1..Len(lines) |-> IF IsHeading(lines[k]) THEN 0 ELSE lines[k].w])
              > budget)
       => Len(chunks) = 1

RECURSIVE TableConsumed(_)
\* the source lines that the scan started at line p reads as parts of tables
TableConsumed(p) ==
    IF p > Len(lines) THEN {}
    ELSE IF IsHeading(lines[p]) THEN TableConsumed(p + 1)
    ELSE IF IsTableStart(p)
         THEN (p..(TableEnd(p + 2) - 1)) \cup TableConsumed(TableEnd(p + 2))
    ELSE IF _is_list_item_start(lines[p]) THEN TableConsumed(ListEnd(p))
    ELSE TableConsumed(p + 1)

\* the source lines that are content: no heading, not blank, in no table
ContentLines ==
    {s \in 1..Len(lines) :
        ~IsHeading(lines[s]) /\ ~IsBlank(lines[s]) /\ s \notin TableConsumed(1)}

\* the text lines of all the chunks, in the order of the list
AllChunkText == Flatten([k \in 1..Len(chunks) |-> chunks[k].text])

\* C28: after the run every content line of the source (no heading, not
\* blank, not part of a table) stands exactly once in the text of the chunks,
\* and the chunks hold these lines in the order of the source.
C28_ContentConservation ==
    (pc = "done") =>
        /\ \A s \in ContentLines :
              /\ Cardinality({t \in 1..Len(AllChunkText) : AllChunkText[t].src = s}) = 1
              /\ \A t \in 1..Len(AllChunkText) :
                    (AllChunkText[t].src = s) =>
                        AllChunkText[t].txt \in {lines[s].txt, LStrip(lines[s].txt)}
        /\ \A t1, t2 \in 1..Len(AllChunkText) :
              (/\ t1 < t2
               /\ AllChunkText[t1].src \in ContentLines
               /\ AllChunkText[t2].src \in ContentLines)
              => AllChunkText[t1].src < AllChunkText[t2].src

\* C28 case: a paragraph was joined to the list block after it, and the
\* chunks hold lines of a paragraph, of a list and of a table
C28_Witness ==
    /\ pc = "done"
    /\ TableConsumed(1) # {}
    /\ \E s \in ContentLines :
          /\ IsListBlockStart(s)
          /\ s > 1
          /\ (s - 1) \in ContentLines
          /\ IsParagraphLine(lines[s - 1])
          /\ \E k \in 1..Len(chunks) : {s - 1, s} \subseteq ChunkSrc(k)

\* C23: in the basic chunker two successive chunks of one heading scope (no
\* heading between them) are such that the words of the earlier chunk plus
\* the words of the first line of the later one exceed the budget: a chunk
\* is closed before a line only when the line does not fit.
C23_BasicGreedyPacking ==
    /\ Len(packed) = Len(chunks)
    /\ \A k \in 1..(Len(chunks) - 1) :
          (packed[k].flush = packed[k + 1].flush) =>
              WordCount(Flatten(packed[k].blocks)) + WordCount(packed[k + 1].blocks[1])
                  > budget

(***************************************************************************)
(* Properties of the vector-store tools.                                   *)
(***************************************************************************)
\* C8: the collection never holds two objects with the same chunk_id: a
\* record whose chunk_id is stored replaces the stored object.
C8_OneObjectPerChunkId ==
    \A o1, o2 \in collection : (o1.chunk_id = o2.chunk_id) => (o1 = o2)

\* C9: after purge_by_filename(file_name) returned, no object of the form
\* <file_name>-<digits> is left (so the inventory count of file_name is 0),
\* whatever the size of the collection; stated for the runs in which the
\* client gives uuids as str and no delete_by_id raised.
C9_PurgeLeavesNoObject ==
    (op = "idle" /\ result.tool = "purge" /\ client.uuid_str /\ ~delete_raised) =>
        \A o \in collection : ~PatternMatch(file_name, o.chunk_id)

\* the files (source stems) of the objects of the collection
FilesOf(coll) == {_file_from_chunk_id(o.chunk_id) : o \in coll} \ {<<>>}

\* C10: collect_counts returns the number of objects of the collection as the
\* total and, for every file, the number of objects <file>-<digits>.
C10_CountsAreExact ==
    (op = "idle" /\ result.tool = "collect") =>
        /\ result.value.total = Cardinality(collection)
        /\ DOMAIN result.value.per_file = FilesOf(collection)
        /\ \A f \in FilesOf(collection) :
              result.value.per_file[f]
                  = Cardinality({o \in collection : PatternMatch(f, o.chunk_id)})

\* C16: when an insert of an upload run fails, the failure is fatal for that
\* record only: the run goes on to the remaining records of the input (none
\* is left out) and ends with a non-zero exit code.
C16_InsertFailureIsPerRecord ==
    (op = "idle" /\ result.tool = "upload" /\ run.failed) =>
        /\ run.pending = 0
        /\ result.value.exit # 0

\* the uuids of the objects of a collection
Uuids(coll) == {o.uuid : o \in coll}

\* C19: after an upload run with recreate the collection holds exactly the
\* objects this run inserted; after a run without recreate every object
\* that was in the collection before the run is still in it.
C19_RecreateFrame ==
    (op = "idle" /\ result.tool = "upload") =>
        IF run.recreate
        THEN Uuids(collection) = run.mine
        ELSE run.before \subseteq collection

\* C19 case: a run with recreate on a collection that held objects has
\* inserted an object and returned
C19_Witness ==
    /\ op = "idle" /\ result.tool = "upload" /\ result.value.exit = 0
    /\ run.recreate /\ run.emptied /\ run.mine # {}

\* chunk_id is exactly "<name>-<digits>"
IsStemDigits(name, chunk_id) == \E d \in {"1", "2"} : chunk_id = Append(name, d)

\* one step of a purge: objects only leave the collection, and only objects
\* whose chunk_id is "<file_name>-<digits>"; the deletion loop counts one per
\* object that left and goes on to the next uuid after a deletion that
\* failed; the pages are read without a change; the number returned is the
\* count of the loop
C25_PurgeStep ==
    (op \in {"purge_pages", "purge_delete"}) =>
        /\ collection' \subseteq collection
        /\ \A o \in collection \ collection' : IsStemDigits(file_name, o.chunk_id)
        /\ (op = "purge_pages") =>
              (collection' = collection /\ (op' = "purge_delete" => deleted' = 0))
        /\ (op = "purge_delete" /\ op' = "purge_delete") =>
              /\ deleted' = deleted + Cardinality(collection \ collection')
              /\ pos' = pos + 1
        /\ (op = "purge_delete" /\ op' = "idle") =>
              /\ collection' = collection
              /\ pos > Len(to_delete)
              /\ result' = [tool |-> "purge", value |-> deleted]

\* C25: a purge for a source deletes only objects whose chunk_id is exactly
\* "<stem>-<digits>"; every other object stays as it was; the number returned
\* is the number of objects deleted: a deletion that fails is not counted and
\* does not stop the deletions after it.
C25_PurgeDeletesOnlyTheSource == [][C25_PurgeStep]_vars

\* C25 case: a purge of "doc" has returned; it deleted an object, one
\* deletion failed (every page was read, so the object of "doc" that is left
\* is the one whose deletion failed) and the object "doc-1-1" of another
\* source is still stored
C25_Witness ==
    /\ op = "idle"
    /\ result.tool = "purge"
    /\ result.value >= 1
    /\ file_name = <<"doc">>
    /\ client.cursor
    /\ delete_raised
    /\ \E o \in collection : IsStemDigits(<<"doc">>, o.chunk_id)
    /\ \E o \in collection : o.chunk_id = <<"doc", "1", "1">>

(***************************************************************************)
(* Properties of the reranker.                                             *)
(***************************************************************************)
\* C18: rerank returns a permutation of the input objects (none added, none
\* dropped, chunk_id and text unchanged), each with the score predicted for
\* it, ordered by non-increasing score, objects of equal score in the order
\* they had in the input.
C18_RerankIsStableSort ==
    (rpc = "done") =>
        /\ Len(items_sorted) = Len(items)
        /\ {items_sorted[k].from : k \in 1..Len(items_sorted)} = 1..Len(items)
        /\ \A k \in 1..Len(items_sorted) :
              /\ items_sorted[k].chunk_id = items[items_sorted[k].from].chunk_id
              /\ items_sorted[k].text = items[items_sorted[k].from].text
              /\ items_sorted[k].reranker = scores[items_sorted[k].from]
        /\ \A k, l \in 1..Len(items_sorted) :
              (k < l) =>
                  /\ items_sorted[k].reranker >= items_sorted[l].reranker
                  /\ (items_sorted[k].reranker = items_sorted[l].reranker) =>
                        (items_sorted[k].from < items_sorted[l].from)

\* C18 case: rerank returned a list that has two objects of one score and
\* that it had to reorder
C18_Witness ==
    /\ rpc = "done"
    /\ \E a, b \in 1..Len(items) : a < b /\ scores[a] = scores[b]
    /\ \E a, b \in 1..Len(items) : a < b /\ scores[a] < scores[b]

(***************************************************************************)
(* Properties of the keyword extractor.                                    *)
(***************************************************************************)
\* the score of a phrase: the weights of its valid occurrences plus one
\* quarter for every word after the first
ScoreOf(phrase) ==
    SumSeq([k \in 1..Len(kw_doc) |->
        IF /\ (IF kw_doc[k].src = "np" /\ Len(kw_doc[k].toks) > 3
               THEN SubSeq(kw_doc[k].toks, 1, 3) ELSE kw_doc[k].toks) = phrase
           /\ Len(phrase) \in 1..3
        THEN (CASE kw_doc[k].src = "ent" -> (IF kw_doc[k].label = "ORG" THEN 12 ELSE 8)
                [] kw_doc[k].src = "np" -> 6
                [] kw_doc[k].src = "quoted" -> 10
                [] kw_doc[k].src = "gram" -> 4)
        ELSE 0])
    + (Len(phrase) - 1)

\* the distinct valid candidate phrases of the text
ValidCandidates ==
    {ph \in {kw_doc[k].toks : k \in 1..Len(kw_doc)}
            \cup {SubSeq(kw_doc[k].toks, 1, 3) : k \in {m \in 1..Len(kw_doc) :
                                                         kw_doc[m].src = "np"}} :
        /\ Len(ph) \in 1..3
        /\ CompactChars(ph) >= 3
        /\ \E k \in 1..Len(kw_doc) :
              \/ kw_doc[k].toks = ph
              \/ kw_doc[k].src = "np" /\ SubSeq(kw_doc[k].toks, 1, 3) = ph}

\* C21: the list returned holds pairwise distinct phrases, in the order of
\* non-increasing score and, at equal score, of non-increasing length; it
\* holds at most max_kw phrases, and at least min_kw when the text has that
\* many distinct valid candidates; every phrase has at most 3 words and at
\* least 3 characters that are no space.
C21_KeywordsContract ==
    (kpc = "done") =>
        /\ \A a, b \in 1..Len(selected) : (selected[a] = selected[b]) => a = b
        /\ \A a, b \in 1..Len(selected) :
              (a < b) =>
                  \/ ScoreOf(selected[a]) > ScoreOf(selected[b])
                  \/ /\ ScoreOf(selected[a]) = ScoreOf(selected[b])
                     /\ PhraseChars(selected[a]) >= PhraseChars(selected[b])
        /\ Len(selected) <= max_kw
        /\ (Cardinality(ValidCandidates) >= min_kw) => Len(selected) >= min_kw
        /\ \A a \in 1..Len(selected) :
              Len(selected[a]) <= 3 /\ CompactChars(selected[a]) >= 3

(***************************************************************************)
(* Properties of the title-prefix stage.                                   *)
(***************************************************************************)
\* C24: in every record the title-prefix stage has written, approx_tokens
\* is the number of words of the record's final text, also when the text
\* was prefixed with the title of the deepest heading and the delimiter.
C24_ApproxTokensOfFinalText ==
    \A k \in 1..Len(fout) :
        (fout[k].kind = "record") =>
            fout[k].approx_tokens = WordCount(fout[k].text)

(***************************************************************************)
(* Properties of the DOCX chunker.                                         *)
(***************************************************************************)
\* the blocks whose text chunk k of the DOCX chunker holds
DocxSrc(k) == {docx_chunks[k].text[t].src : t \in 1..Len(docx_chunks[k].text)}

RECURSIVE StackBefore(_)
\* the heading stack made by the headings before block p, in order: a
\* heading of level n leaves fewer than n entries and is put on top
StackBefore(p) ==
    IF p <= 1 THEN <<>>
    ELSE IF docx_blocks[p - 1].kind = "heading"
         THEN LET below == StackBefore(p - 1)
                  keep == IF Len(below) < docx_blocks[p - 1].level
                          THEN Len(below) ELSE docx_blocks[p - 1].level - 1
              IN Append(SubSeq(below, 1, keep), docx_blocks[p - 1].text)
         ELSE StackBefore(p - 1)

\* C29: no chunk of the DOCX chunker holds text from both sides of a
\* heading, and the headings of every chunk are the heading stack in effect
\* at each block of its text: made from the headings before that block.
C29_DocxHeadingsInEffect ==
    \A k \in 1..Len(docx_chunks) :
        /\ \A h \in 1..Len(docx_blocks) :
              (docx_blocks[h].kind = "heading") =>
                  /\ h \notin DocxSrc(k)
                  /\ ~(\E a, b \in DocxSrc(k) : a < h /\ h < b)
        /\ \A s \in DocxSrc(k) : docx_chunks[k].headings = StackBefore(s)

(***************************************************************************)
(* Properties of the embedding stage.                                      *)
(***************************************************************************)
\* the chunks among the lines of a chunks file, in order
WellFormedChunks(file) == SelectSeq(file, LAMBDA ln : ln.kind = "chunk")

\* the items [k, v] of the records of a cache file
CacheItems(file) ==
    {[k |-> file[n].k, v |-> file[n].v] : n \in {m \in 1..Len(file) : file[m].kind = "record"}}

\* the texts handed to model.encode in this run
Submitted == UNION {{encode_log[c][n] : n \in 1..Len(encode_log[c])} : c \in 1..Len(encode_log)}

\* the vector of a text under the model of the run
VectorOf(text) == [of |-> text, by |-> "v1"]

\* C11: a run that follows a returned run on the same chunks file, with the
\* same model, version and options, makes no call of model.encode, leaves
\* the cache file as it was and writes the same vector for every chunk.
C11_SecondRunIsIdempotent ==
    (epc = "done" /\ prev_run.ok /\ prev_run.include = include_heading_embeddings) =>
        /\ encode_log = <<>>
        /\ cache_file = prev_run.cache
        /\ Len(out_file) = Len(prev_run.out)
        /\ \A j \in 1..Len(out_file) :
              /\ out_file[j].embedding = prev_run.out[j].embedding
              /\ out_file[j].embeddings = prev_run.out[j].embeddings

\* C11 case: the second of two returned runs has written records with
\* heading vectors, and the cache file holds what the first run computed
C11_Witness ==
    /\ epc = "done" /\ prev_run.ok /\ prev_run.include /\ include_heading_embeddings
    /\ \E j \in 1..Len(out_file) : out_file[j].embeddings # <<>>
    /\ Len(cache_file) >= 2

\* C12: no text whose key is in the cache is handed to model.encode, and
\* when the records of a batch are about to be written (and ever after)
\* every vector model.encode returned is in the cache file.
C12_HitsSkipBackendAndCacheFirst ==
    /\ ~hit_submitted
    /\ (epc \in {"write", "read", "done"}) => (returned \subseteq CacheItems(cache_file))

\* C12 case: a batch with a hit and a miss is about to be written
C12_Witness ==
    /\ epc = "write"
    /\ returned # {}
    /\ \E n \in 1..Len(rows) : rows[n].text \notin Submitted
    /\ \E n \in 1..Len(rows) : rows[n].text \in Submitted

\* C13: loading the cache never ends the run, and after the load every
\* record of the cache file is in emb_cache, whatever other lines the file
\* holds.
C13_CacheLoadSkipsCorruptLines ==
    /\ err # "cache_load"
    /\ (epc = "read" /\ rd = 1) =>
          \A it \in CacheItems(cache_file) : HasKey(emb_cache, it.k)

\* C14: a run that returned has written one record per chunk of the input,
\* in input order, each with the vector of its own text, and its batches
\* held between 1 and _BATCH_SIZE chunks, every chunk in one batch.
C14_OneRecordPerChunkInOrder ==
    (epc = "done") =>
        LET w == WellFormedChunks(chunk_lines)
        IN /\ Len(out_file) = Len(w)
           /\ \A j \in 1..Len(out_file) :
                 /\ out_file[j].text = w[j].text
                 /\ out_file[j].embedding = VectorOf(w[j].text)
           /\ \A b \in 1..Len(batch_log) : batch_log[b] \in 1.._BATCH_SIZE
           /\ SumSeq(batch_log) = Len(w)

\* C14 case: a run of two batches that found some texts in the cache and
\* had others computed has returned
C14_Witness ==
    /\ epc = "done"
    /\ Len(batch_log) >= 2
    /\ \E j \in 1..Len(out_file) : out_file[j].text \in Submitted
    /\ \E j \in 1..Len(out_file) : out_file[j].text \notin Submitted

\* C15: when model.encode fails for a batch only that batch is lost: every
\* chunk of the input outside the batch that failed (rows holds it) has its
\* record in the output.
C15_BackendFailureLosesOneBatch ==
    (epc = "error" /\ err = "backend") =>
        Len(out_file) = Len(WellFormedChunks(chunk_lines)) - Len(rows)

\* the chunks among the lines read before the run stopped
ChunksRead == WellFormedChunks(SubSeq(chunk_lines, 1, rd - 1))

SubmittedTexts == Flatten(encode_log)

\* C27: in a run that started with an empty cache file, no text is handed to
\* model.encode twice and no key has two lines in the cache file, also when
\* the text stands several times in one batch.
C27_EachTextEncodedOnce ==
    (epc # "idle" /\ prev_run.cache = <<>>) =>
        /\ \A a, b \in 1..Len(SubmittedTexts) :
              (SubmittedTexts[a] = SubmittedTexts[b]) => a = b
        /\ \A a, b \in 1..Len(cache_file) :
              (cache_file[a].k = cache_file[b].k) => a = b

\* C30: when two runs on one chunks file, started at the same time with the
\* same output path, have both returned, the output holds one record per
\* chunk of the input, in input order.
C30_TwoRunsWriteEachChunkOnce ==
    (/\ epc = "done"
     /\ peer = "run"
     /\ peer_written = Len(WellFormedChunks(chunk_lines)))
    => /\ Len(out_file) = Len(WellFormedChunks(chunk_lines))
       /\ \A j \in 1..Len(out_file) :
             out_file[j].text = WellFormedChunks(chunk_lines)[j].text

\* C20: the two embedding processes are never inside _persist_cache_items,
\* the cache file open for append, at the same time.
C20_CacheAppendsAreExclusive ==
    ~(epc \in {"persist_texts", "persist_headings"} /\ peer = "in")

====
